---- MODULE Spec2Model ----
(***************************************************************************)
(* The metric-mapping core of the financial analytics platform:            *)
(* AIService (services/ai_service.py) with its embeddings cache, the       *)
(* Kaggle remote client, the connection test and the mapping request.      *)
(*                                                                         *)
(* Python values are modelled as follows.                                  *)
(*   - a str is a sequence of one-character strings, so that str.lower()   *)
(*     and whitespace trimming are computed character by character;        *)
(*   - None is the empty sequence where the other values are sequences     *)
(*     (an embedding), and a record with kind "None" otherwise;            *)
(*   - an OrderedDict is the sequence of its <<key, value>> items in       *)
(*     iteration order;                                                    *)
(*   - a call that may raise returns a record with a field "raised".       *)
(* Threads interleave between the individual dict operations and reads of  *)
(* attributes, which is what CPython's GIL allows.                         *)
(***************************************************************************)
EXTENDS Integers, Sequences, FiniteSets, TLC

\* ------------------------------------------------------------------ bounds

\* Stands for _max_cache_size (1000 in the source), scaled down.
MaxCacheSize == 2
\* How many successful probes (distinct time.time() stamps) a run records.
MaxProbes == 2

\* ------------------------------------------------------------------ values

Threads == {"t1", "t2"}
MainThread == "t1"

None == <<>>

\* str.lower(), per character (the upper-case letters the labels use).
LowerChar(c) ==
    CASE c = "E" -> "e"
      [] c = "B" -> "b"
      [] c = "I" -> "i"
      [] c = "T" -> "t"
      [] c = "R" -> "r"
      [] c = "P" -> "p"
      [] c = "A" -> "a"
      [] OTHER -> c

Lower(s) == [i \in DOMAIN s |-> LowerChar(s[i])]

\* The cache key _map_metrics_ai computes for a label: str(metric).lower().
CacheKey(metric) == Lower(metric)

\* _get_standard_metrics(), scaled down to two of its 27 entries, in order.
StandardMetrics ==
    << <<"R","e","v","e","n","u","e">>, <<"E","B","I","T">> >>

\* Source labels a caller may submit: "EBIT", "ebit", " ebit" and "PAT".
LabelUpper == <<"E","B","I","T">>
LabelLower == <<"e","b","i","t">>
LabelSpace == <<" ","e","b","i","t">>
LabelOther == <<"P","A","T">>

Labels == {LabelUpper, LabelLower, LabelSpace, LabelOther}

\* Embedding vectors the remote model and the local model may return.
RemoteVectors == { <<1, 0>> }
LocalVectors == { <<1, 1>> }

\* ------------------------------------------------------------ OrderedDict

OD_keys(od) == {od[i][1] : i \in DOMAIN od}

OD_contains(od, k) == k \in OD_keys(od)

OD_index(od, k) == CHOOSE i \in DOMAIN od : od[i][1] = k

OD_remove(od, k) ==
    LET i == OD_index(od, k)
    IN  SubSeq(od, 1, i - 1) \o SubSeq(od, i + 1, Len(od))

\* od.move_to_end(k): KeyError when k is absent.
OD_move_to_end(od, k) ==
    IF OD_contains(od, k)
    THEN [raised |-> FALSE, od |-> Append(OD_remove(od, k), od[OD_index(od, k)])]
    ELSE [raised |-> TRUE, od |-> od]

\* od[k]: KeyError when k is absent.
OD_getitem(od, k) ==
    IF OD_contains(od, k)
    THEN [raised |-> FALSE, value |-> od[OD_index(od, k)][2]]
    ELSE [raised |-> TRUE, value |-> None]

\* od.popitem(last=False): removes the first item; KeyError when empty.
OD_popitem_first(od) ==
    IF Len(od) = 0
    THEN [raised |-> TRUE, od |-> od, key |-> None]
    ELSE [raised |-> FALSE, od |-> Tail(od), key |-> od[1][1]]

\* od[k] = v: an existing key keeps its position, a new key goes last.
OD_setitem(od, k, v) ==
    IF OD_contains(od, k)
    THEN [i \in DOMAIN od |-> IF od[i][1] = k THEN <<k, v>> ELSE od[i]]
    ELSE Append(od, <<k, v>>)

\* ------------------------------------------------- network and KaggleAPIClient

\* JSON bodies a server may send: not JSON at all, or an object with or without
\* "embeddings" (a list holding no vector or one) and with or without "info".
JsonObjects ==
    [has_embeddings : {FALSE}, embeddings : {<<>>}, info : {"absent", "gpu"}]
    \cup [has_embeddings : {TRUE}, embeddings : {<<>>} \cup {<<v>> : v \in RemoteVectors},
          info : {"absent", "gpu"}]

NoJson == [has_embeddings |-> FALSE, embeddings |-> <<>>, info |-> "absent"]

\* What session.request(...) meets: a timeout, a refused connection, or a
\* response with a status code and a body.
NetOutcomes ==
    [kind : {"timeout", "refused"}, status : {0}, valid_json : {FALSE}, json : {NoJson}]
    \cup [kind : {"response"}, status : {200, 500}, valid_json : {FALSE}, json : {NoJson}]
    \cup [kind : {"response"}, status : {200, 500}, valid_json : {TRUE}, json : JsonObjects]

\* Optional[Dict]: None, or the parsed object.
NoneDict == [is_none |-> TRUE, dict |-> NoJson]
SomeDict(j) == [is_none |-> FALSE, dict |-> j]

\* The try block of make_request: session.request raises on a timeout or a
\* refused connection; a 200 response is parsed by response.json(), which
\* raises on a body that is not JSON; any other status gives None.
MakeRequestTry(net) ==
    IF net.kind # "response"
    THEN [raised |-> TRUE, value |-> NoneDict]
    ELSE IF net.status = 200
         THEN IF net.valid_json
              THEN [raised |-> FALSE, value |-> SomeDict(net.json)]
              ELSE [raised |-> TRUE, value |-> NoneDict]
         ELSE [raised |-> FALSE, value |-> NoneDict]

\* Mutant: make_request without its except clause.
MakeRequest_NoExcept(net) == MakeRequestTry(net)

\* make_request: the try block under "except Exception: return None".
MakeRequest(net) ==
    LET r == MakeRequestTry(net)
    IN  IF r.raised
        THEN [raised |-> FALSE, value |-> NoneDict]
        ELSE r

\* "response and 'embeddings' in response": None and the empty dict are falsy.
HasEmbeddingsKey(resp) ==
    /\ ~resp.is_none
    /\ resp.dict.has_embeddings

\* _get_embedding_kaggle on a client that exists: the first embedding of the
\* response, None on any failure (its own except clause catches a raise).
GetEmbeddingKaggle(net) ==
    LET r == MakeRequest(net)
    IN  IF r.raised
        THEN None
        ELSE IF HasEmbeddingsKey(r.value) /\ Len(r.value.dict.embeddings) > 0
             THEN r.value.dict.embeddings[1]
             ELSE None

\* _test_kaggle_connection: whether the probe succeeded, and the info to record.
TestKaggleConnection(net) ==
    LET r == MakeRequest(net)
    IN  IF r.raised
        THEN [ok |-> FALSE, info |-> "absent"]
        ELSE IF HasEmbeddingsKey(r.value)
             THEN [ok |-> TRUE,
                   info |-> IF r.value.dict.info = "absent" THEN "{}" ELSE r.value.dict.info]
             ELSE [ok |-> FALSE, info |-> "absent"]

\* _get_embedding_local on a loaded model: model.encode returns a vector or
\* raises, and a raise is caught and gives None.
LocalOutcomes == {None} \cup LocalVectors

\* A KaggleAPIClient between calls and during one make_request call: the
\* arguments, what the network does, the request sent and the value returned.
NoCall ==
    [pc |-> "none", base_url |-> <<>>, endpoint |-> <<>>, timeout |-> 0,
     net |-> [kind |-> "none"], url |-> <<>>, used_timeout |-> 0,
     ret |-> [raised |-> FALSE, value |-> NoneDict]]


\* ------------------------------------------------------------------ state

VARIABLES
    config,             \* config.ai: enabled, use_kaggle_api, kaggle_api_url, kaggle_fallback_to_local
    ui_state,           \* state_manager keys kaggle_api_enabled, kaggle_api_url
    model,              \* AIService.model: "None" or "loaded"
    embeddings_cache,   \* AIService.embeddings_cache
    kaggle_available,   \* AIService._kaggle_available
    kaggle_info,        \* AIService._kaggle_info
    api_client,         \* AIService._api_client: "None" or the client's base url
    last_health_check,  \* AIService._last_health_check: 0 is None, else the stamp
    pc,                 \* per thread: where it stands
    frame,              \* per thread: the locals of _map_metrics_ai
    ge,                 \* per thread: the locals of _get_embedding
    ct,                 \* per thread: the locals of the connection test
    client,             \* a KaggleAPIClient and the make_request call made on it
    result,             \* per thread: what map_metrics_with_confidence_levels returned
    published,          \* per thread: the event types its operation has published
    recency,            \* history: the cached keys, least recently accessed first
    last_add,           \* history, per thread: the cache as _add_to_cache found it
    last_res,           \* history: the resolution that returned last
    embedded,           \* history: the targets an inference call has embedded, and
                        \* whether the entry was evicted since
    cm_cache,           \* CacheManager._cache, in the dict's insertion order
    now,                \* what time.time() returns
    cm_last,            \* history: the last CacheManager operation
    sm_state,           \* StateManager._state
    sm_locks,           \* StateManager._locks: key to the RLock object made for it
    sm_global_lock,     \* StateManager._global_lock: owner and count
    rlocks,             \* the RLock objects made so far: owner and count
    sm_pc,              \* per thread: where it stands in a StateManager call
    sm_frame            \* per thread: the locals of that call

service == <<model, embeddings_cache, kaggle_available, kaggle_info, api_client,
             last_health_check>>
health == <<kaggle_available, kaggle_info, last_health_check>>
locals == <<frame, ge, ct, result, published>>
history == <<recency, last_add, last_res>>
cache_manager == <<cm_cache, now, cm_last>>
state_manager == <<sm_state, sm_locks, sm_global_lock, rlocks, sm_pc, sm_frame>>
components == <<cache_manager, state_manager>>
extras == <<embedded, components>>
vars == <<config, ui_state, service, pc, locals, history, client, extras>>

Urls == {"https://a.ngrok-free.app"}

Configs ==
    [enabled : BOOLEAN, use_kaggle_api : BOOLEAN, kaggle_api_url : {""} \cup Urls,
     kaggle_fallback_to_local : BOOLEAN]

EmptyDict == [x \in {} |-> None]

NoFrame ==
    [source_metrics |-> <<>>, phase |-> "none", idx |-> 0,
     source_embeddings |-> <<>>, valid_sources |-> <<>>,
     target_embeddings |-> <<>>, valid_targets |-> <<>>,
     mappings |-> EmptyDict, confidence_scores |-> EmptyDict, method |-> "", exc |-> "",
     remote_ok |-> FALSE, remote_failed |-> FALSE, all_local |-> TRUE]

NoGe == [label |-> <<>>, text |-> <<>>, embedding |-> None, calls |-> <<>>, hit |-> FALSE]

NoCt == [caller |-> "none", api_url |-> "", probe_ok |-> FALSE]

NoResult ==
    [kind |-> "none", high_confidence |-> EmptyDict, medium_confidence |-> EmptyDict,
     low_confidence |-> EmptyDict, requires_manual |-> <<>>, method |-> "", error |-> ""]

NoAdd == [active |-> FALSE, before |-> <<>>, lru |-> None, text |-> <<>>, evicted |-> <<>>]

NoRes == [valid |-> FALSE, label |-> <<>>, text |-> <<>>, embedding |-> None]

\* The other components as their constructors leave them.
NoOp == [op |-> "none", entry |-> None, evicted |-> <<>>]

\* CacheManager.__init__, lines 33-40. The counters of _stats and the entries'
\* access_count, which are written and only reported by get_stats, are left out.
InitCacheManager ==
    /\ cm_cache = <<>>
    /\ now = 0
    /\ cm_last = NoOp

FreeLock == [owner |-> "none", count |-> 0]

NoSMFrame == [op |-> "none", key |-> "", value |-> None, lock |-> 0, exc |-> "", at |-> ""]

\* StateManager.__init__, lines 8-14. No validator and no observer is
\* registered.
InitStateManager ==
    /\ sm_state = EmptyDict
    /\ sm_locks = EmptyDict
    /\ sm_global_lock = FreeLock
    /\ rlocks = <<>>
    /\ sm_pc = [t \in Threads |-> "idle"]
    /\ sm_frame = [t \in Threads |-> NoSMFrame]

InitComponents ==
    /\ embedded = EmptyDict
    /\ InitCacheManager
    /\ InitStateManager

\* AIService.__init__ up to its call of _initialize(): the main thread is about
\* to run _initialize, no other thread holds the service yet.
InitService ==
    /\ config \in Configs
    /\ ui_state = [kaggle_api_enabled |-> FALSE, kaggle_api_url |-> ""]
    /\ model = "None"
    /\ embeddings_cache = <<>>
    /\ kaggle_available = FALSE
    /\ kaggle_info = "{}"
    /\ api_client = "None"
    /\ last_health_check = 0
    /\ pc = [t \in Threads |-> IF t = MainThread THEN "init" ELSE "idle"]
    /\ frame = [t \in Threads |-> NoFrame]
    /\ ge = [t \in Threads |-> NoGe]
    /\ ct = [t \in Threads |-> NoCt]
    /\ result = [t \in Threads |-> NoResult]
    /\ published = [t \in Threads |-> <<>>]
    /\ recency = <<>>
    /\ last_add = [t \in Threads |-> NoAdd]
    /\ last_res = NoRes
    /\ InitComponents

Init ==
    /\ InitService
    /\ client = NoCall

\* The constructor has not returned yet.
Constructing ==
    \/ pc[MainThread] \in {"init", "init_local"}
    \/ ct[MainThread].caller = "init"

\* ----------------------------------------------------- construction, health

\* _initialize, lines 49-55.
Initialize(t) ==
    /\ pc[t] = "init"
    /\ IF ~config.enabled
       THEN /\ pc' = [pc EXCEPT ![t] = "idle"]
            /\ ct' = ct
       ELSE IF config.use_kaggle_api /\ config.kaggle_api_url # ""
            THEN /\ pc' = [pc EXCEPT ![t] = "ct_client"]
                 /\ ct' = [ct EXCEPT ![t] = [caller |-> "init", api_url |-> config.kaggle_api_url,
                                             probe_ok |-> FALSE]]
            ELSE /\ pc' = [pc EXCEPT ![t] = "init_local"]
                 /\ ct' = ct
    /\ UNCHANGED <<client, extras, config, ui_state, service, frame, ge, result, published, history>>

\* _initialize, lines 58-59, and _initialize_local_model: the model loads or not.
InitializeLocalModel(t) ==
    /\ pc[t] = "init_local"
    /\ IF ~kaggle_available \/ config.kaggle_fallback_to_local
       THEN \E loads \in BOOLEAN : model' = IF loads THEN "loaded" ELSE model
       ELSE model' = model
    /\ pc' = [pc EXCEPT ![t] = "idle"]
    /\ ct' = [ct EXCEPT ![t] = NoCt]
    /\ UNCHANGED <<client, extras, config, ui_state, embeddings_cache, health, api_client, frame, ge,
                   result, published, history>>

\* _render_kaggle_config, lines 313-320: the box is ticked, a URL is entered and
\* "Test Connection" is pressed.
UITestConnection(t) ==
    /\ pc[t] = "idle"
    /\ ~Constructing
    /\ last_health_check < MaxProbes
    /\ \E api_url \in Urls :
         /\ config' = [config EXCEPT !.kaggle_api_url = api_url, !.use_kaggle_api = TRUE]
         /\ ct' = [ct EXCEPT ![t] = [caller |-> "ui", api_url |-> api_url, probe_ok |-> FALSE]]
    /\ pc' = [pc EXCEPT ![t] = "ct_client"]
    /\ published' = [published EXCEPT ![t] = <<>>]
    /\ result' = [result EXCEPT ![t] = NoResult]
    /\ UNCHANGED <<client, extras, ui_state, service, frame, ge, history>>

\* _render_kaggle_config, lines 331-333: the box is not ticked.
UIDisableKaggle(t) ==
    /\ pc[t] = "idle"
    /\ ~Constructing
    /\ ui_state' = [ui_state EXCEPT !.kaggle_api_enabled = FALSE]
    /\ config' = [config EXCEPT !.use_kaggle_api = FALSE]
    /\ UNCHANGED <<client, extras, service, pc, locals, history>>

\* _initialize_kaggle_api, lines 63-66: a new client replaces the old one.
CTClient(t) ==
    /\ pc[t] = "ct_client"
    /\ api_client' = config.kaggle_api_url
    /\ pc' = [pc EXCEPT ![t] = "ct_probe"]
    /\ UNCHANGED <<client, extras, config, ui_state, model, embeddings_cache, health, locals, history>>

\* _test_kaggle_connection, lines 79-96: the probe request and, when it
\* succeeds, the record of its info and time.
CTProbe(t) ==
    /\ pc[t] = "ct_probe"
    /\ \E net \in NetOutcomes :
         LET r == TestKaggleConnection(net)
         IN  /\ kaggle_info' = IF r.ok THEN r.info ELSE kaggle_info
             /\ last_health_check' = IF r.ok THEN last_health_check + 1 ELSE last_health_check
             /\ ct' = [ct EXCEPT ![t].probe_ok = r.ok]
    /\ pc' = [pc EXCEPT ![t] = "ct_flag"]
    /\ UNCHANGED <<client, extras, config, ui_state, model, embeddings_cache, kaggle_available, api_client,
                   frame, ge, result, published, history>>

\* What _initialize_kaggle_api sets _kaggle_available to after its probe,
\* lines 68-73: True on success, and nothing on failure.  The except clause
\* of lines 75-77 is the only place that stores False, and nothing in the try
\* block raises: the client's constructor only assigns, the probe and
\* publish catch their own exceptions.
FlagAfterProbe(probe_ok, old) == IF probe_ok THEN TRUE ELSE old

\* _initialize_kaggle_api, lines 68-73, and the return to its caller.
CTFlag(t) ==
    /\ pc[t] = "ct_flag"
    /\ kaggle_available' = FlagAfterProbe(ct[t].probe_ok, kaggle_available)
    /\ published' = [published EXCEPT ![t] =
                        IF ct[t].probe_ok THEN Append(@, "kaggle_connected") ELSE @]
    /\ pc' = [pc EXCEPT ![t] = IF ct[t].caller = "init" THEN "init_local" ELSE "ui_after"]
    /\ UNCHANGED <<client, extras, config, ui_state, model, embeddings_cache, kaggle_info, api_client,
                   last_health_check, frame, ge, ct, result, history>>

\* _render_kaggle_config, lines 322-327: the outcome shown and stored.
UIAfterTest(t) ==
    /\ pc[t] = "ui_after"
    /\ ui_state' = IF kaggle_available
                   THEN [kaggle_api_enabled |-> TRUE, kaggle_api_url |-> ct[t].api_url]
                   ELSE ui_state
    /\ ct' = [ct EXCEPT ![t] = NoCt]
    /\ pc' = [pc EXCEPT ![t] = "idle"]
    /\ UNCHANGED <<client, extras, config, service, frame, ge, result, published, history>>

\* ------------------------------------------------------ similarity, buckets

\* config.ai.similarity_threshold and config.ai.confidence_levels, in percent.
SimilarityThreshold == 60
HighThreshold == 80
MediumThreshold == 60
LowThreshold == 40

RECURSIVE DotUpTo(_, _, _)
DotUpTo(a, b, n) == IF n = 0 THEN 0 ELSE a[n] * b[n] + DotUpTo(a, b, n - 1)

Dot(a, b) == DotUpTo(a, b, Len(a))

\* Mutant: the dot product without the division by the norms.
Cosine_Unnormalised(a, b) == [dot |-> Dot(a, b), nn |-> 1]

\* cosine_similarity(a, b) as the exact fraction dot / sqrt(nn); a vector of
\* norm zero gives 0. (Rounding of the floating-point result is left out.)
Cosine(a, b) ==
    IF Dot(a, a) = 0 \/ Dot(b, b) = 0
    THEN [dot |-> 0, nn |-> 1]
    ELSE [dot |-> Dot(a, b), nn |-> Dot(a, a) * Dot(b, b)]

\* x >= y for two such fractions.
ScoreGE(x, y) ==
    IF x.dot >= 0
    THEN IF y.dot < 0 THEN TRUE ELSE x.dot * x.dot * y.nn >= y.dot * y.dot * x.nn
    ELSE IF y.dot >= 0 THEN FALSE ELSE x.dot * x.dot * y.nn <= y.dot * y.dot * x.nn

Percent(p) == [dot |-> p, nn |-> 10000]

\* Mutant: np.argmax returning the last index holding the maximum.
ArgMax_Last(scores) ==
    LET best == {i \in DOMAIN scores : \A j \in DOMAIN scores : ScoreGE(scores[i], scores[j])}
    IN  CHOOSE i \in best : \A j \in best : i >= j

\* np.argmax over a row of scores: the first index holding the maximum.
ArgMax(scores) ==
    LET best == {i \in DOMAIN scores : \A j \in DOMAIN scores : ScoreGE(scores[i], scores[j])}
    IN  CHOOSE i \in best : \A j \in best : i <= j

DictSet(d, k, v) == [x \in DOMAIN d \cup {k} |-> IF x = k THEN v ELSE d[x]]

\* Mutant: every best score is accepted.
Accepts_Always(best_score) == TRUE

\* Mutant: the best score is held against the low confidence level.
Accepts_AtLowLevel(best_score) == ScoreGE(best_score, Percent(LowThreshold))

\* The test of line 216: best_score >= self.config.ai.similarity_threshold.
Accepts(best_score) == ScoreGE(best_score, Percent(SimilarityThreshold))

\* The loop of lines 211-218 over valid_sources[1..n]: the mappings and
\* confidence_scores dictionaries.
RECURSIVE CreateMappings(_, _, _, _, _)
CreateMappings(valid_sources, source_embeddings, valid_targets, target_embeddings, n) ==
    IF n = 0
    THEN [mappings |-> EmptyDict, confidence_scores |-> EmptyDict]
    ELSE LET prev == CreateMappings(valid_sources, source_embeddings, valid_targets,
                                    target_embeddings, n - 1)
             sim_scores == [j \in DOMAIN target_embeddings |->
                               Cosine(source_embeddings[n], target_embeddings[j])]
             best_idx == ArgMax(sim_scores)
             best_score == sim_scores[best_idx]
         IN  IF Accepts(best_score)
             THEN [mappings |-> DictSet(prev.mappings, valid_sources[n], valid_targets[best_idx]),
                   confidence_scores |-> DictSet(prev.confidence_scores, valid_sources[n],
                                                 best_score)]
             ELSE prev

\* np.vstack(embeddings) raises on an empty list and on vectors of different
\* lengths.
VStackRaises(embeddings) ==
    \/ embeddings = <<>>
    \/ \E i, j \in DOMAIN embeddings : Len(embeddings[i]) # Len(embeddings[j])

\* cosine_similarity(source_matrix, target_matrix) raises when the two
\* matrices have different numbers of columns.
CosineRaises(source_embeddings, target_embeddings) ==
    Len(source_embeddings[1]) # Len(target_embeddings[1])

\* The try block of lines 203-218: the two matrices, the similarities and the
\* loop that creates the mappings. Both dictionaries are still empty when
\* one of the three calls before the loop raises.
SimilarityTry(f) ==
    IF \/ VStackRaises(f.source_embeddings)
       \/ VStackRaises(f.target_embeddings)
       \/ CosineRaises(f.source_embeddings, f.target_embeddings)
    THEN [raised |-> TRUE, mappings |-> EmptyDict, confidence_scores |-> EmptyDict]
    ELSE LET m == CreateMappings(f.valid_sources, f.source_embeddings, f.valid_targets,
                                 f.target_embeddings, Len(f.valid_sources))
         IN  [raised |-> FALSE, mappings |-> m.mappings,
              confidence_scores |-> m.confidence_scores]

\* Mutant: the similarity calculation without its except clause.
CalculateSimilarities_NoExcept(f) == SimilarityTry(f)

\* Lines 201-221: the try block under "except Exception", which logs the
\* failure and goes on to the return statement.
CalculateSimilarities(f) == [SimilarityTry(f) EXCEPT !.raised = FALSE]

\* Mutant: the levels are tested lowest first.
BucketOf_LowestFirst(confidence) ==
    IF ScoreGE(confidence, Percent(LowThreshold)) THEN "low"
    ELSE "manual"

\* The if/elif chain of lines 142-158: the bucket of a mapped source.
BucketOf(confidence) ==
    IF ScoreGE(confidence, Percent(HighThreshold)) THEN "high"
    ELSE IF ScoreGE(confidence, Percent(MediumThreshold)) THEN "medium"
    ELSE IF ScoreGE(confidence, Percent(LowThreshold)) THEN "low"
    ELSE "manual"

\* Mutant: a source without a mapping is left out of the result.
Unmapped_Dropped(prev, source) == prev

\* Line 160: a source without a mapping is appended to requires_manual.
Unmapped(prev, source) == [prev EXCEPT !.requires_manual = Append(@, source)]

\* The loop of lines 137-160 over source_metrics[1..n].
RECURSIVE Categorize(_, _, _, _)
Categorize(source_metrics, mappings, confidence_scores, n) ==
    IF n = 0
    THEN [high_confidence |-> EmptyDict, medium_confidence |-> EmptyDict,
          low_confidence |-> EmptyDict, requires_manual |-> <<>>]
    ELSE LET prev == Categorize(source_metrics, mappings, confidence_scores, n - 1)
             source == source_metrics[n]
         IN  IF source \in DOMAIN mappings
             THEN LET confidence == IF source \in DOMAIN confidence_scores
                                    THEN confidence_scores[source] ELSE Percent(0)
                      entry == [target |-> mappings[source], confidence |-> confidence]
                      bucket == BucketOf(confidence)
                  IN  IF bucket = "high"
                      THEN [prev EXCEPT !.high_confidence = DictSet(@, source, entry)]
                      ELSE IF bucket = "medium"
                      THEN [prev EXCEPT !.medium_confidence = DictSet(@, source, entry)]
                      ELSE IF bucket = "low"
                      THEN [prev EXCEPT !.low_confidence = DictSet(@, source, entry)]
                      ELSE [prev EXCEPT !.requires_manual = Append(@, source)]
             ELSE Unmapped(prev, source)

\* ------------------------------------------------------- recency (history)

Without(seq, k) == SelectSeq(seq, LAMBDA x : x # k)

\* An access of key k (its insertion or a cache hit) makes it the most recent.
Touch(seq, k) == Append(Without(seq, k), k)

\* ---------------------------------------------------------- mapping request

\* Lists of source labels a caller may submit.
Requests ==
    { <<>>, <<LabelUpper>>, <<LabelSpace>>, <<LabelUpper, LabelLower>>,
      <<LabelLower, LabelSpace>>, <<LabelLower, LabelLower>>, <<LabelOther>> }

\* map_metrics_with_confidence_levels, lines 117-126, and the entry of
\* _map_metrics_ai, lines 171-176.
StartMapping(t, source_metrics) ==
    /\ pc[t] = "idle"
    /\ ~Constructing
    /\ published' = [published EXCEPT ![t] = <<"mapping_started">>]
    /\ frame' = [frame EXCEPT ![t] = [NoFrame EXCEPT !.source_metrics = source_metrics,
                                                      !.phase = "sources", !.idx = 1]]
    /\ result' = [result EXCEPT ![t] = NoResult]
    /\ pc' = [pc EXCEPT ![t] = "loop"]
    /\ UNCHANGED <<client, extras, config, ui_state, service, ge, ct, history>>

NewGe(label) ==
    [label |-> label, text |-> CacheKey(label), embedding |-> None, calls |-> <<>>,
     hit |-> FALSE]

\* Mutant: the source loop goes on to the targets whatever it produced.
Loop_NoEarlyReturn(t) ==
    /\ pc[t] = "loop"
    /\ LET f == frame[t]
       IN  IF f.phase = "sources"
           THEN IF f.idx <= Len(f.source_metrics)
                THEN /\ ge' = [ge EXCEPT ![t] = NewGe(f.source_metrics[f.idx])]
                     /\ pc' = [pc EXCEPT ![t] = "ge_check"]
                     /\ frame' = frame
                ELSE /\ frame' = [frame EXCEPT ![t].phase = "targets", ![t].idx = 1]
                     /\ pc' = pc
                     /\ ge' = ge
           ELSE IF f.idx <= Len(StandardMetrics)
                THEN /\ ge' = [ge EXCEPT ![t] = NewGe(StandardMetrics[f.idx])]
                     /\ pc' = [pc EXCEPT ![t] = "ge_check"]
                     /\ frame' = frame
                ELSE /\ frame' = [frame EXCEPT ![t].phase = "match"]
                     /\ pc' = [pc EXCEPT ![t] = "match"]
                     /\ ge' = ge
    /\ UNCHANGED <<client, extras, config, ui_state, service, ct, result, published, history>>

\* Mutant: the targets are taken up after the first source label.
Loop_EarlyTargets(t) ==
    /\ pc[t] = "loop"
    /\ LET f == frame[t]
       IN  IF f.phase = "sources"
           THEN IF f.idx <= Len(f.source_metrics) /\ f.idx <= 1
                THEN /\ ge' = [ge EXCEPT ![t] = NewGe(f.source_metrics[f.idx])]
                     /\ pc' = [pc EXCEPT ![t] = "ge_check"]
                     /\ frame' = frame
                ELSE IF f.source_embeddings = <<>>
                     THEN /\ frame' = [frame EXCEPT ![t].method = "none", ![t].phase = "classify"]
                          /\ pc' = [pc EXCEPT ![t] = "classify"]
                          /\ ge' = ge
                     ELSE /\ frame' = [frame EXCEPT ![t].phase = "targets", ![t].idx = 1]
                          /\ pc' = pc
                          /\ ge' = ge
           ELSE IF f.idx <= Len(StandardMetrics)
                THEN /\ ge' = [ge EXCEPT ![t] = NewGe(StandardMetrics[f.idx])]
                     /\ pc' = [pc EXCEPT ![t] = "ge_check"]
                     /\ frame' = frame
                ELSE /\ frame' = [frame EXCEPT ![t].phase = "match"]
                     /\ pc' = [pc EXCEPT ![t] = "match"]
                     /\ ge' = ge
    /\ UNCHANGED <<client, extras, config, ui_state, service, ct, result, published, history>>

\* The heads of the two for loops, lines 178-179 and 195-196, and the test of
\* lines 184-189 between them.
Loop(t) ==
    /\ pc[t] = "loop"
    /\ LET f == frame[t]
       IN  IF f.phase = "sources"
           THEN IF f.idx <= Len(f.source_metrics)
                THEN /\ ge' = [ge EXCEPT ![t] = NewGe(f.source_metrics[f.idx])]
                     /\ pc' = [pc EXCEPT ![t] = "ge_check"]
                     /\ frame' = frame
                ELSE IF f.source_embeddings = <<>>
                     THEN /\ frame' = [frame EXCEPT ![t].method = "none", ![t].phase = "classify"]
                          /\ pc' = [pc EXCEPT ![t] = "classify"]
                          /\ ge' = ge
                     ELSE /\ frame' = [frame EXCEPT ![t].phase = "targets", ![t].idx = 1]
                          /\ pc' = pc
                          /\ ge' = ge
           ELSE IF f.idx <= Len(StandardMetrics)
                THEN /\ ge' = [ge EXCEPT ![t] = NewGe(StandardMetrics[f.idx])]
                     /\ pc' = [pc EXCEPT ![t] = "ge_check"]
                     /\ frame' = frame
                ELSE /\ frame' = [frame EXCEPT ![t].phase = "match"]
                     /\ pc' = [pc EXCEPT ![t] = "match"]
                     /\ ge' = ge
    /\ UNCHANGED <<client, extras, config, ui_state, service, ct, result, published, history>>

\* An exception leaves _get_embedding and _map_metrics_ai, neither of which
\* handles it there, and reaches the except clause of line 165.
Raise(t, exc) ==
    /\ pc' = [pc EXCEPT ![t] = "mm_except"]
    /\ frame' = [frame EXCEPT ![t].exc = exc]

\* Mutant: the lookup never finds the key.
CacheLookup_NeverFound(od, text) == FALSE

\* The test of line 231: text in self.embeddings_cache.
CacheLookup(od, text) == OD_contains(od, text)

\* _get_embedding, line 231: the membership test.
GECheck(t) ==
    /\ pc[t] = "ge_check"
    /\ pc' = [pc EXCEPT ![t] = IF CacheLookup(embeddings_cache, ge[t].text)
                               THEN "ge_move" ELSE "ge_route"]
    /\ UNCHANGED <<client, extras, config, ui_state, service, locals, history>>

\* Mutant: a hit leaves the entry where it is.
CacheHitMove_NoMove(od, k) ==
    IF OD_contains(od, k)
    THEN [raised |-> FALSE, od |-> od]
    ELSE [raised |-> TRUE, od |-> od]

\* _get_embedding, line 232: the hit is moved to the most recent place.
CacheHitMove(od, k) == OD_move_to_end(od, k)

GEMove(t) ==
    /\ pc[t] = "ge_move"
    /\ LET r == CacheHitMove(embeddings_cache, ge[t].text)
       IN  IF r.raised
           THEN /\ Raise(t, "KeyError")
                /\ UNCHANGED <<embeddings_cache, recency>>
           ELSE /\ embeddings_cache' = r.od
                /\ recency' = Touch(recency, ge[t].text)
                /\ pc' = [pc EXCEPT ![t] = "ge_read"]
                /\ frame' = frame
    /\ UNCHANGED <<client, extras, config, ui_state, model, health, api_client, ge, ct, result,
                   published, last_add, last_res>>

\* _get_embedding, line 233: the cached value is read and returned.
GERead(t) ==
    /\ pc[t] = "ge_read"
    /\ LET r == OD_getitem(embeddings_cache, ge[t].text)
       IN  IF r.raised
           THEN /\ Raise(t, "KeyError")
                /\ ge' = ge
           ELSE /\ ge' = [ge EXCEPT ![t].embedding = r.value, ![t].hit = TRUE]
                /\ pc' = [pc EXCEPT ![t] = "ge_ret"]
                /\ frame' = frame
    /\ UNCHANGED <<client, extras, config, ui_state, service, ct, result, published, history>>

\* Mutant: the remote is asked whatever the availability flag says.
GERoute_AlwaysRemote(t) ==
    /\ pc[t] = "ge_route"
    /\ pc' = [pc EXCEPT ![t] = "ge_kaggle"]
    /\ UNCHANGED <<client, extras, config, ui_state, service, locals, history>>

\* _get_embedding, lines 235-238: the availability flag is read.
GERoute(t) ==
    /\ pc[t] = "ge_route"
    /\ pc' = [pc EXCEPT ![t] = IF kaggle_available THEN "ge_kaggle" ELSE "ge_local"]
    /\ UNCHANGED <<client, extras, config, ui_state, service, locals, history>>

\* Mutant: a failed remote call marks the remote unavailable.
GEKaggle_DisablesOnFailure(t) ==
    /\ pc[t] = "ge_kaggle"
    /\ \E net \in NetOutcomes :
         LET e == IF api_client = "None" THEN None ELSE GetEmbeddingKaggle(net)
         IN  /\ ge' = [ge EXCEPT ![t].embedding = e,
                                 ![t].calls = Append(@, IF e = None THEN "kaggle_fail"
                                                        ELSE "kaggle_ok")]
             /\ kaggle_available' = (e # None)
    /\ pc' = [pc EXCEPT ![t] = "ge_local"]
    /\ UNCHANGED <<client, extras, config, ui_state, model, embeddings_cache, kaggle_info, api_client,
                   last_health_check, frame, ct, result, published, history>>

\* _get_embedding, line 239, and _get_embedding_kaggle: a missing client makes
\* the call raise inside its try block, which gives None.
GEKaggle(t) ==
    /\ pc[t] = "ge_kaggle"
    /\ \E net \in NetOutcomes :
         LET e == IF api_client = "None" THEN None ELSE GetEmbeddingKaggle(net)
         IN  ge' = [ge EXCEPT ![t].embedding = e,
                              ![t].calls = Append(@, IF e = None THEN "kaggle_fail"
                                                     ELSE "kaggle_ok")]
    /\ pc' = [pc EXCEPT ![t] = "ge_local"]
    /\ UNCHANGED <<client, extras, config, ui_state, service, frame, ct, result, published, history>>

\* Mutant: the local model is asked whatever the remote returned.
AsksLocal_Always(embedding, m) == m # "None"

\* The test of line 242: the local model is asked when nothing was obtained
\* and a model is loaded.
AsksLocal(embedding, m) == embedding = None /\ m # "None"

\* _get_embedding, lines 242-243, and _get_embedding_local.
GELocal(t) ==
    /\ pc[t] = "ge_local"
    /\ IF AsksLocal(ge[t].embedding, model)
       THEN \E out \in LocalOutcomes :
              ge' = [ge EXCEPT ![t].embedding = out,
                               ![t].calls = Append(@, IF out = None THEN "local_fail"
                                                      ELSE "local_ok")]
       ELSE ge' = ge
    /\ pc' = [pc EXCEPT ![t] = "ge_add"]
    /\ UNCHANGED <<client, extras, config, ui_state, service, frame, ct, result, published, history>>

\* Mutant: the test is off by one.
AtCapacity_OffByOne(od) == Len(od) > MaxCacheSize

\* The test of line 281: the cache is full.
AtCapacity(od) == Len(od) >= MaxCacheSize

\* Mutant: the result is stored whether or not an embedding was obtained.
GEAdd_StoresMiss(t) ==
    /\ pc[t] = "ge_add"
    /\ pc' = [pc EXCEPT ![t] = IF AtCapacity(embeddings_cache) THEN "ac_pop" ELSE "ac_set"]
    /\ last_add' = [last_add EXCEPT ![t] =
           [active |-> TRUE, before |-> embeddings_cache,
            lru |-> IF recency = <<>> THEN None ELSE Head(recency),
            text |-> ge[t].text, evicted |-> <<>>]]
    /\ UNCHANGED <<client, extras, config, ui_state, service, locals, recency, last_res>>

\* _get_embedding, lines 246-247, and _add_to_cache, line 281.
GEAdd(t) ==
    /\ pc[t] = "ge_add"
    /\ IF ge[t].embedding # None
       THEN /\ pc' = [pc EXCEPT ![t] = IF AtCapacity(embeddings_cache)
                                       THEN "ac_pop" ELSE "ac_set"]
            /\ last_add' = [last_add EXCEPT ![t] =
                   [active |-> TRUE, before |-> embeddings_cache,
                    lru |-> IF recency = <<>> THEN None ELSE Head(recency),
                    text |-> ge[t].text, evicted |-> <<>>]]
       ELSE /\ pc' = [pc EXCEPT ![t] = "ge_ret"]
            /\ last_add' = last_add
    /\ UNCHANGED <<client, extras, config, ui_state, service, locals, recency, last_res>>

\* _add_to_cache, line 282: popitem(last=False).
Evict(od) == OD_popitem_first(od)

ACPopStep(t) ==
    /\ pc[t] = "ac_pop"
    /\ LET r == Evict(embeddings_cache)
       IN  IF r.raised
           THEN /\ Raise(t, "KeyError")
                /\ UNCHANGED <<embeddings_cache, recency, last_add>>
           ELSE /\ embeddings_cache' = r.od
                /\ recency' = Without(recency, r.key)
                /\ last_add' = [last_add EXCEPT ![t].evicted = Append(@, r.key)]
                /\ pc' = [pc EXCEPT ![t] = "ac_set"]
                /\ frame' = frame
    /\ UNCHANGED <<client, components, config, ui_state, model, health, api_client, ge, ct,
                   result, published, last_res>>

ACPop(t) ==
    /\ ACPopStep(t)
    /\ UNCHANGED embedded

\* The same step, with the history of the embedded targets: the evicted key is
\* marked.
ACPopTracked(t) ==
    /\ ACPopStep(t)
    /\ embedded' = [x \in DOMAIN embedded |->
                       IF embeddings_cache # <<>> /\ x = Head(embeddings_cache)[1]
                       THEN "evicted" ELSE embedded[x]]

\* Mutant: the entry is not stored.
ACSet_NoStore(t) ==
    /\ pc[t] = "ac_set"
    /\ pc' = [pc EXCEPT ![t] = "ge_ret"]
    /\ UNCHANGED <<client, extras, config, ui_state, service, locals, history>>

\* _add_to_cache, line 284.
ACSet(t) ==
    /\ pc[t] = "ac_set"
    /\ embeddings_cache' = OD_setitem(embeddings_cache, ge[t].text, ge[t].embedding)
    /\ recency' = Touch(recency, ge[t].text)
    /\ pc' = [pc EXCEPT ![t] = "ge_ret"]
    /\ UNCHANGED <<client, extras, config, ui_state, model, health, api_client, locals, last_add, last_res>>

\* _get_embedding returns, line 233 or 249, to the loop body, lines 180-182 or
\* 197-199.
GEReturnStep(t) ==
    /\ pc[t] = "ge_ret"
    /\ LET f == frame[t]
           e == ge[t].embedding
           g == [f EXCEPT !.idx = @ + 1,
                          !.remote_ok = @ \/ \E i \in DOMAIN ge[t].calls :
                                                   ge[t].calls[i] = "kaggle_ok",
                          !.remote_failed = @ \/ \E i \in DOMAIN ge[t].calls :
                                                       ge[t].calls[i] = "kaggle_fail",
                          !.all_local = @ /\ (e # None => \E i \in DOMAIN ge[t].calls :
                                                              ge[t].calls[i] = "local_ok")]
       IN  frame' = [frame EXCEPT ![t] =
               IF e = None
               THEN g
               ELSE IF f.phase = "sources"
                    THEN [g EXCEPT !.source_embeddings = Append(@, e),
                                   !.valid_sources = Append(@, ge[t].label)]
                    ELSE [g EXCEPT !.target_embeddings = Append(@, e),
                                   !.valid_targets = Append(@, ge[t].label)]]
    /\ last_res' = [valid |-> TRUE, label |-> ge[t].label, text |-> ge[t].text,
                    embedding |-> ge[t].embedding]
    /\ last_add' = [last_add EXCEPT ![t] = NoAdd]
    /\ ge' = [ge EXCEPT ![t] = NoGe]
    /\ pc' = [pc EXCEPT ![t] = "loop"]
    /\ UNCHANGED <<client, components, config, ui_state, service, ct, result, published, recency>>

GEReturn(t) ==
    /\ GEReturnStep(t)
    /\ UNCHANGED embedded

\* The same step, with the history of the canonical targets that an inference
\* call (remote or local) has produced an embedding of.
GEReturnTracked(t) ==
    /\ GEReturnStep(t)
    /\ embedded' = IF /\ frame[t].phase = "targets"
                      /\ ge[t].embedding # None
                      /\ ~ge[t].hit
                   THEN [x \in DOMAIN embedded \cup {ge[t].text} |->
                            IF x = ge[t].text THEN "cached" ELSE embedded[x]]
                   ELSE embedded

\* Mutant: the tag names the path that produced the embeddings.
MethodTag_ByPath(available) == "local_ai"

\* Line 226: 'ai' if self._kaggle_available else 'local_ai'.
MethodTag(available) == IF available THEN "ai" ELSE "local_ai"

\* _map_metrics_ai, lines 201-227.
Match(t) ==
    /\ pc[t] = "match"
    /\ LET m == CalculateSimilarities(frame[t])
       IN  IF m.raised
           THEN Raise(t, "ValueError")
           ELSE /\ frame' = [frame EXCEPT ![t].mappings = m.mappings,
                                          ![t].confidence_scores = m.confidence_scores,
                                          ![t].method = MethodTag(kaggle_available),
                                          ![t].phase = "classify"]
                /\ pc' = [pc EXCEPT ![t] = "classify"]
    /\ UNCHANGED <<client, extras, config, ui_state, service, ge, ct, result, published, history>>

\* map_metrics_with_confidence_levels, lines 129-163.
Classify(t) ==
    /\ pc[t] = "classify"
    /\ LET f == frame[t]
           c == Categorize(f.source_metrics, f.mappings, f.confidence_scores,
                           Len(f.source_metrics))
       IN  result' = [result EXCEPT ![t] =
               [kind |-> "buckets", high_confidence |-> c.high_confidence,
                medium_confidence |-> c.medium_confidence,
                low_confidence |-> c.low_confidence,
                requires_manual |-> c.requires_manual, method |-> f.method, error |-> ""]]
    /\ published' = [published EXCEPT ![t] = Append(@, "mapping_completed")]
    /\ frame' = [frame EXCEPT ![t].phase = "done"]
    /\ pc' = [pc EXCEPT ![t] = "done"]
    /\ UNCHANGED <<client, extras, config, ui_state, service, ge, ct, history>>

\* Mutant: the failure path publishes no event.
MappingFailed_Silent(t) ==
    /\ pc[t] = "mm_except"
    /\ result' = [result EXCEPT ![t] = [NoResult EXCEPT !.kind = "error", !.error = frame[t].exc]]
    /\ frame' = [frame EXCEPT ![t].phase = "failed"]
    /\ pc' = [pc EXCEPT ![t] = "done"]
    /\ UNCHANGED <<client, extras, config, ui_state, service, ge, ct, published, history>>

\* Mutant: the failure path empties the cache.
MappingFailed_ClearsCache(t) ==
    /\ pc[t] = "mm_except"
    /\ result' = [result EXCEPT ![t] = [NoResult EXCEPT !.kind = "error", !.error = frame[t].exc]]
    /\ published' = [published EXCEPT ![t] = Append(@, "mapping_failed")]
    /\ frame' = [frame EXCEPT ![t].phase = "failed"]
    /\ pc' = [pc EXCEPT ![t] = "done"]
    /\ embeddings_cache' = <<>>
    /\ recency' = <<>>
    /\ UNCHANGED <<client, extras, config, ui_state, model, health, api_client, ge, ct,
                   last_add, last_res>>

\* map_metrics_with_confidence_levels, lines 165-168.
MappingFailed(t) ==
    /\ pc[t] = "mm_except"
    /\ result' = [result EXCEPT ![t] = [NoResult EXCEPT !.kind = "error", !.error = frame[t].exc]]
    /\ published' = [published EXCEPT ![t] = Append(@, "mapping_failed")]
    /\ frame' = [frame EXCEPT ![t].phase = "failed"]
    /\ pc' = [pc EXCEPT ![t] = "done"]
    /\ UNCHANGED <<client, extras, config, ui_state, service, ge, ct, history>>

\* The caller takes the returned result; the thread is free again.
Return(t) ==
    /\ pc[t] = "done"
    /\ pc' = [pc EXCEPT ![t] = "idle"]
    /\ frame' = [frame EXCEPT ![t] = NoFrame]
    /\ ge' = [ge EXCEPT ![t] = NoGe]
    /\ result' = [result EXCEPT ![t] = NoResult]
    /\ published' = [published EXCEPT ![t] = <<>>]
    /\ last_add' = [last_add EXCEPT ![t] = NoAdd]
    /\ last_res' = NoRes
    /\ UNCHANGED <<client, extras, config, ui_state, service, ct, recency>>

\* ------------------------------------------------------------ specifications

Step(t) ==
    \/ Initialize(t)
    \/ InitializeLocalModel(t)
    \/ UITestConnection(t)
    \/ UIDisableKaggle(t)
    \/ CTClient(t)
    \/ CTProbe(t)
    \/ CTFlag(t)
    \/ UIAfterTest(t)
    \/ \E source_metrics \in Requests : StartMapping(t, source_metrics)
    \/ Loop(t)
    \/ GECheck(t)
    \/ GEMove(t)
    \/ GERead(t)
    \/ GERoute(t)
    \/ GEKaggle(t)
    \/ GELocal(t)
    \/ GEAdd(t)
    \/ ACPop(t)
    \/ ACSet(t)
    \/ GEReturn(t)
    \/ Match(t)
    \/ Classify(t)
    \/ Return(t)

\* One thread: the operations run one at a time.
Next == Step(MainThread)

Spec == Init /\ [][Next]_vars

\* Several threads share the service: mapping requests of different sessions
\* interleave between any two of their steps. The service is built with the
\* default configuration (AIConfig: enabled, no Kaggle API, fallback to local).
DefaultConfig ==
    [enabled |-> TRUE, use_kaggle_api |-> FALSE, kaggle_api_url |-> "",
     kaggle_fallback_to_local |-> TRUE]

ConcRequests == { <<LabelLower>>, <<LabelSpace>> }

InitConc ==
    /\ Init
    /\ config = DefaultConfig

StepConc(t) ==
    \/ Initialize(t)
    \/ InitializeLocalModel(t)
    \/ \E source_metrics \in ConcRequests : StartMapping(t, source_metrics)
    \/ Loop(t)
    \/ GECheck(t)
    \/ GEMove(t)
    \/ GERead(t)
    \/ GERoute(t)
    \/ GELocal(t)
    \/ GEAdd(t)
    \/ ACPop(t)
    \/ ACSet(t)
    \/ GEReturn(t)
    \/ Match(t)
    \/ Classify(t)
    \/ MappingFailed(t)
    \/ Return(t)

NextConc == \E t \in Threads : StepConc(t)

SpecConc == InitConc /\ [][NextConc]_vars

\* The lifetime of one service, built with the default configuration: one
\* request after the other, any list of labels, with the history of the
\* targets embedded so far.
StepLife(t) ==
    \/ Initialize(t)
    \/ InitializeLocalModel(t)
    \/ \E source_metrics \in Requests : StartMapping(t, source_metrics)
    \/ Loop(t)
    \/ GECheck(t)
    \/ GEMove(t)
    \/ GERead(t)
    \/ GERoute(t)
    \/ GELocal(t)
    \/ GEAdd(t)
    \/ ACPopTracked(t)
    \/ ACSet(t)
    \/ GEReturnTracked(t)
    \/ Match(t)
    \/ Classify(t)
    \/ Return(t)

NextLife == StepLife(MainThread)

SpecLife == InitConc /\ [][NextLife]_vars

\* The health state under several threads: the service is built with the
\* remote configured, and then a session that presses "Test Connection" and a
\* session that maps labels run on their own threads, interleaved between any
\* two of their steps. _health_check_lock is created at line 44 and acquired
\* nowhere, so no step waits for another.
KaggleConfig ==
    [enabled |-> TRUE, use_kaggle_api |-> TRUE, kaggle_api_url |-> CHOOSE u \in Urls : TRUE,
     kaggle_fallback_to_local |-> TRUE]

HealthRequests == { <<LabelOther>> }

InitHealth ==
    /\ Init
    /\ config = KaggleConfig

\* The session that configures the remote: the construction, then connection
\* tests.
StepHealthUI(t) ==
    \/ Initialize(t)
    \/ InitializeLocalModel(t)
    \/ UITestConnection(t)
    \/ CTClient(t)
    \/ CTProbe(t)
    \/ CTFlag(t)
    \/ UIAfterTest(t)

\* The session that maps labels.
StepHealthMapping(t) ==
    \/ \E source_metrics \in HealthRequests : StartMapping(t, source_metrics)
    \/ Loop(t)
    \/ GECheck(t)
    \/ GEMove(t)
    \/ GERead(t)
    \/ GERoute(t)
    \/ GEKaggle(t)
    \/ GELocal(t)
    \/ GEAdd(t)
    \/ ACPop(t)
    \/ ACSet(t)
    \/ GEReturn(t)
    \/ Match(t)
    \/ Classify(t)
    \/ Return(t)

NextHealth ==
    \/ StepHealthUI(MainThread)
    \/ \E t \in Threads \ {MainThread} : StepHealthMapping(t)

SpecHealth == InitHealth /\ [][NextHealth]_vars

\* One KaggleAPIClient and one make_request call on it, for every base url,
\* endpoint, timeout argument and network outcome.
KaggleApiTimeout == 30
ProbeTimeout == 10

RECURSIVE RStrip(_, _)
RStrip(s, c) ==
    IF s # <<>> /\ s[Len(s)] = c THEN RStrip(SubSeq(s, 1, Len(s) - 1), c) ELSE s

RECURSIVE LStrip(_, _)
LStrip(s, c) ==
    IF s # <<>> /\ Head(s) = c THEN LStrip(Tail(s), c) ELSE s

\* KaggleAPIClient.__init__: base_url.rstrip('/').
ClientBaseUrl(base_url) == RStrip(base_url, "/")

\* make_request, line 330: f"{self.base_url}/{endpoint.lstrip('/')}".
RequestUrl(base_url, endpoint) == base_url \o <<"/">> \o LStrip(endpoint, "/")

\* make_request, line 331: timeout or self.config.ai.kaggle_api_timeout.
RequestTimeout(timeout) == IF timeout # 0 THEN timeout ELSE KaggleApiTimeout

BaseUrls == { <<"h">>, <<"h", "/">> }
Endpoints == { <<"/", "e">>, <<"e">> }

InitClient ==
    /\ InitService
    /\ config = DefaultConfig
    /\ \E base_url \in BaseUrls, endpoint \in Endpoints, timeout \in {0, ProbeTimeout},
          net \in NetOutcomes :
         client = [NoCall EXCEPT !.pc = "new", !.base_url = base_url,
                                 !.endpoint = endpoint, !.timeout = timeout, !.net = net]

\* KaggleAPIClient.__init__, lines 312-316.
ClientNew ==
    /\ client.pc = "new"
    /\ client' = [client EXCEPT !.pc = "call", !.base_url = ClientBaseUrl(@)]
    /\ UNCHANGED <<config, ui_state, service, pc, locals, history, extras>>

\* make_request, lines 328-352.
ClientMakeRequest ==
    /\ client.pc = "call"
    /\ client' = [client EXCEPT !.pc = "returned",
                                !.url = RequestUrl(client.base_url, client.endpoint),
                                !.used_timeout = RequestTimeout(client.timeout),
                                !.ret = MakeRequest(client.net)]
    /\ UNCHANGED <<config, ui_state, service, pc, locals, history, extras>>

NextClient ==
    \/ ClientNew
    \/ ClientMakeRequest

SpecClient == InitClient /\ [][NextClient]_vars

\* The matcher and the classification alone: _map_metrics_ai has resolved its
\* sources and the canonical targets, each to a vector or to nothing, and goes
\* on from line 201. The vectors are those a remote may return: two of the
\* same direction, two more of the same length and one of another length.
MatchRequests ==
    { <<LabelSpace>>, <<LabelOther>>, <<LabelSpace, LabelOther>>, <<LabelOther, LabelSpace>> }

\* 'Revenue', 'EBIT', 'EBITDA' in the order of _get_standard_metrics.
MatchTargets == StandardMetrics \o << <<"E","B","I","T","D","A">> >>

MatchVectors == { <<1, 0>>, <<2, 0>>, <<1, 1>>, <<1, 2>>, <<1, 0, 0>> }

\* The sources take three of them.
MatchSourceVectors == { <<1, 0>>, <<1, 1>>, <<1, 0, 0>> }

\* The entries of seq[1..n] whose resolution gave a vector, lines 180-182 and
\* 197-199.
RECURSIVE Keep(_, _, _)
Keep(seq, embeddings, n) ==
    IF n = 0
    THEN <<>>
    ELSE IF embeddings[n] # None
         THEN Append(Keep(seq, embeddings, n - 1), seq[n])
         ELSE Keep(seq, embeddings, n - 1)

\* The last entries of the resolved keys that fit the cache.
LastEntries(entries) ==
    IF Len(entries) <= MaxCacheSize
    THEN entries
    ELSE SubSeq(entries, Len(entries) - MaxCacheSize + 1, Len(entries))

\* The state of a request at line 201 whose labels were resolved, by the remote
\* on an empty cache, to the given vectors or to nothing.
AtMatch(labels, source_vectors, target_vectors) ==
    LET n == Len(labels)
        k == Len(MatchTargets)
        valid_sources == Keep(labels, source_vectors, n)
        valid_targets == Keep(MatchTargets, target_vectors, k)
        source_embeddings == Keep(source_vectors, source_vectors, n)
        target_embeddings == Keep(target_vectors, target_vectors, k)
        valid == valid_sources \o valid_targets
        embeddings == source_embeddings \o target_embeddings
        entries == LastEntries([i \in DOMAIN valid |-> <<CacheKey(valid[i]), embeddings[i]>>])
        missed == \/ \E i \in 1..n : source_vectors[i] = None
                  \/ \E j \in 1..k : target_vectors[j] = None
    IN  /\ config = [enabled |-> TRUE, use_kaggle_api |-> TRUE,
                     kaggle_api_url |-> CHOOSE u \in Urls : TRUE,
                     kaggle_fallback_to_local |-> FALSE]
        /\ ui_state = [kaggle_api_enabled |-> FALSE, kaggle_api_url |-> ""]
        /\ model = "None"
        /\ embeddings_cache = entries
        /\ kaggle_available = TRUE
        /\ kaggle_info = "{}"
        /\ api_client = config.kaggle_api_url
        /\ last_health_check = 1
        /\ pc = [t \in Threads |-> IF t = MainThread THEN "match" ELSE "idle"]
        /\ frame = [t \in Threads |->
                       IF t = MainThread
                       THEN [NoFrame EXCEPT !.source_metrics = labels, !.phase = "match",
                                            !.idx = k + 1,
                                            !.source_embeddings = source_embeddings,
                                            !.valid_sources = valid_sources,
                                            !.target_embeddings = target_embeddings,
                                            !.valid_targets = valid_targets,
                                            !.remote_ok = TRUE, !.remote_failed = missed,
                                            !.all_local = FALSE]
                       ELSE NoFrame]
        /\ ge = [t \in Threads |-> NoGe]
        /\ ct = [t \in Threads |-> NoCt]
        /\ result = [t \in Threads |-> NoResult]
        /\ published = [t \in Threads |-> IF t = MainThread THEN <<"mapping_started">> ELSE <<>>]
        /\ recency = [i \in DOMAIN entries |-> entries[i][1]]
        /\ last_add = [t \in Threads |-> NoAdd]
        /\ last_res = [valid |-> TRUE, label |-> MatchTargets[k],
                       text |-> CacheKey(MatchTargets[k]), embedding |-> target_vectors[k]]
        /\ client = NoCall
        /\ InitComponents

InitMatch ==
    \E labels \in MatchRequests :
        \E source_vectors \in [DOMAIN labels -> MatchSourceVectors \cup {None}],
           target_vectors \in [DOMAIN MatchTargets -> MatchVectors \cup {None}] :
            /\ \E i \in DOMAIN labels : source_vectors[i] # None
            /\ AtMatch(labels, source_vectors, target_vectors)

NextMatch ==
    \/ Match(MainThread)
    \/ Classify(MainThread)

SpecMatch == InitMatch /\ [][NextMatch]_vars

\* ------------------------------------------------------------ CacheManager

\* CacheManager: scaled-down sizes, in bytes and in seconds.
MaxSizeBytes == 10
CompressionThreshold == 10
FallbackSize == 4

CacheKeys == {"a", "b", "c"}

\* As many clock readings as it takes to tell the accesses of all keys apart.
MaxTime == Cardinality(CacheKeys) - 1

\* default_ttl: short enough for an entry to expire.
DefaultTtl == MaxTime - 1

\* A value is known by the length of its pickle (size) and by the length of the
\* pickle of its compressed pickle (csize); one value cannot be pickled.
CacheValues ==
    { [picklable |-> TRUE, size |-> 3, csize |-> 4],
      [picklable |-> TRUE, size |-> 12, csize |-> 6],
      [picklable |-> FALSE, size |-> 0, csize |-> 0] }

\* The ttl and compress arguments of set: ttl 0 is None (or 0), which
\* "ttl or self._default_ttl" turns into the default.
TtlArgs == {0}
CompressArgs == {"None", "True", "False"}

\* _estimate_size, lines 95-99, of a value.
EstimateSize(obj) == IF obj.picklable THEN obj.size ELSE FallbackSize

\* _estimate_size of entry.value: of the value, or of its compressed bytes.
EntrySize(entry) ==
    IF entry.compressed THEN entry.value.csize ELSE EstimateSize(entry.value)

RECURSIVE TotalSize(_)
\* The sum of lines 90 and 105.
TotalSize(entries) ==
    IF entries = <<>> THEN 0 ELSE EntrySize(Head(entries)) + TotalSize(Tail(entries))

CM_index(cache, key) == CHOOSE i \in DOMAIN cache : cache[i].key = key

CM_contains(cache, key) == \E i \in DOMAIN cache : cache[i].key = key

CM_remove(cache, key) == SelectSeq(cache, LAMBDA e : e.key # key)

\* self._cache[key] = entry: a key already there keeps its place.
CM_setitem(cache, entry) ==
    IF CM_contains(cache, entry.key)
    THEN [cache EXCEPT ![CM_index(cache, entry.key)] = entry]
    ELSE Append(cache, entry)

RECURSIVE InsertSorted(_, _)
InsertSorted(sorted, entry) ==
    IF sorted = <<>> THEN <<entry>>
    ELSE IF Head(sorted).last_accessed <= entry.last_accessed
         THEN <<Head(sorted)>> \o InsertSorted(Tail(sorted), entry)
         ELSE <<entry>> \o sorted

RECURSIVE SortedUpTo(_, _)
SortedUpTo(cache, n) ==
    IF n = 0 THEN <<>> ELSE InsertSorted(SortedUpTo(cache, n - 1), cache[n])

\* Mutant: the entries are taken in the dict's order.
SortedByLastAccessed_Unsorted(cache) == cache

\* sorted(self._cache.items(), key=lambda x: x[1].last_accessed), lines 108-111:
\* ascending, entries of equal time in the dict's order.
SortedByLastAccessed(cache) == SortedUpTo(cache, Len(cache))

\* The test of line 113: current_size > self._max_size_bytes * 0.8.
OverTarget(current_size) == 10 * current_size > 8 * MaxSizeBytes

RECURSIVE EvictLoop(_, _, _, _)
\* The while loop of lines 113-117.
EvictLoop(current_size, entries, cache, evicted) ==
    IF OverTarget(current_size) /\ entries # <<>>
    THEN EvictLoop(current_size - EntrySize(Head(entries)), Tail(entries),
                   CM_remove(cache, Head(entries).key), Append(evicted, Head(entries).key))
    ELSE [cache |-> cache, evicted |-> evicted]

\* _evict_if_needed, lines 104-117.
EvictIfNeeded(cache) ==
    IF TotalSize(cache) > MaxSizeBytes
    THEN EvictLoop(TotalSize(cache), SortedByLastAccessed(cache), cache, <<>>)
    ELSE [cache |-> cache, evicted |-> <<>>]

\* The clock goes on between two operations.
Tick ==
    /\ now < MaxTime
    /\ now' = now + 1
    /\ UNCHANGED <<config, ui_state, service, pc, locals, history, client, embedded,
                   state_manager, cm_cache, cm_last>>

\* CacheEntry.is_expired, lines 18-21.
IsExpired(entry) == now - entry.created_at > entry.ttl

\* CacheManager.get, lines 42-56, with CacheEntry.access, lines 23-29.
CMGet(key) ==
    /\ IF CM_contains(cm_cache, key)
       THEN LET entry == cm_cache[CM_index(cm_cache, key)]
            IN  IF IsExpired(entry)
                THEN cm_cache' = CM_remove(cm_cache, key)
                ELSE cm_cache' = [cm_cache EXCEPT ![CM_index(cm_cache, key)] =
                                     [entry EXCEPT !.last_accessed = now]]
       ELSE cm_cache' = cm_cache
    /\ cm_last' = NoOp
    /\ UNCHANGED <<config, ui_state, service, pc, locals, history, client, embedded, state_manager, now>>

\* CacheManager.set, lines 58-70, with _evict_if_needed. _compress_value raises
\* on a value that cannot be pickled, before anything is stored.
CMSet(key, value, ttl, compress) ==
    LET c == IF compress = "None"
             THEN EstimateSize(value) > CompressionThreshold
             ELSE compress = "True"
        entry == [key |-> key, value |-> value,
                  ttl |-> IF ttl = 0 THEN DefaultTtl ELSE ttl,
                  created_at |-> now, last_accessed |-> now, compressed |-> c]
    IN  /\ IF c /\ ~value.picklable
           THEN /\ cm_cache' = cm_cache
                /\ cm_last' = [op |-> "set_raised", entry |-> entry, evicted |-> <<>>]
           ELSE LET r == EvictIfNeeded(CM_setitem(cm_cache, entry))
                IN  /\ cm_cache' = r.cache
                    /\ cm_last' = [op |-> "set", entry |-> entry, evicted |-> r.evicted]
        /\ UNCHANGED <<config, ui_state, service, pc, locals, history, client, embedded, state_manager, now>>

\* CacheManager.delete, lines 72-77.
CMDelete(key) ==
    /\ cm_cache' = CM_remove(cm_cache, key)
    /\ cm_last' = NoOp
    /\ UNCHANGED <<config, ui_state, service, pc, locals, history, client, embedded, state_manager, now>>

\* CacheManager.clear, lines 79-81.
CMClear ==
    /\ cm_cache' = <<>>
    /\ cm_last' = NoOp
    /\ UNCHANGED <<config, ui_state, service, pc, locals, history, client, embedded, state_manager, now>>

\* Every operation holds the manager's RLock from its first line to its last:
\* the operations of several threads run one after the other.
NextCache ==
    \/ Tick
    \/ \E key \in CacheKeys : CMGet(key)
    \/ \E key \in CacheKeys, value \in CacheValues, ttl \in TtlArgs,
          compress \in CompressArgs : CMSet(key, value, ttl, compress)
    \/ \E key \in CacheKeys : CMDelete(key)
    \/ CMClear

SpecCache == InitConc /\ [][NextCache]_vars

\* ------------------------------------------------------------ StateManager
\* src/state_manager.py. A call of get, set, delete or clear is a sequence of
\* steps, one per access to the shared dictionaries or to a lock, so that the
\* threads interleave where the interpreter lets them. No validator and no
\* observer is registered.

MaxLocks == 3

SMKeys == {"k"}
SMValues == {"v"}
SMOps == {"get", "set", "delete"}

others_sm ==
    <<config, ui_state, service, pc, locals, history, client, embedded, cache_manager>>

\* threading.RLock: free, or held by one thread a counted number of times.
Acquirable(l, t) == l.owner \in {"none", t}
Acquired(l, t) == [owner |-> t, count |-> l.count + 1]
Released(l) == IF l.count = 1 THEN FreeLock ELSE [l EXCEPT !.count = @ - 1]

SMGoto(t, label) == sm_pc' = [sm_pc EXCEPT ![t] = label]

SMRaise(t, exc, at) ==
    sm_frame' = [sm_frame EXCEPT ![t].exc = exc, ![t].at = at]

\* get(key), set(key, value) or delete(key) is called: line 34, 45 or 68 enters
\* lock(key); set finds no validator at line 40.
SMCall(t, op, key, value) ==
    /\ sm_pc[t] = "idle"
    /\ sm_frame' = [sm_frame EXCEPT ![t] =
           [op |-> op, key |-> key, value |-> value, lock |-> 0, exc |-> "", at |-> ""]]
    /\ SMGoto(t, "lock_test")
    /\ UNCHANGED <<others_sm, sm_state, sm_locks, sm_global_lock, rlocks>>

\* lock, line 19: if key not in self._locks
LockTest(t) ==
    /\ sm_pc[t] = "lock_test"
    /\ SMGoto(t, IF sm_frame[t].key \in DOMAIN sm_locks THEN "lock_read" ELSE "lock_enter")
    /\ UNCHANGED <<others_sm, sm_state, sm_locks, sm_global_lock, rlocks, sm_frame>>

\* lock, line 20: with self._global_lock
LockEnter(t) ==
    /\ sm_pc[t] = "lock_enter"
    /\ Acquirable(sm_global_lock, t)
    /\ sm_global_lock' = Acquired(sm_global_lock, t)
    /\ SMGoto(t, "lock_retest")
    /\ UNCHANGED <<others_sm, sm_state, sm_locks, rlocks, sm_frame>>

\* lock, line 21: if key not in self._locks
LockRetest(t) ==
    /\ sm_pc[t] = "lock_retest"
    /\ SMGoto(t, IF sm_frame[t].key \in DOMAIN sm_locks THEN "lock_exit" ELSE "lock_create")
    /\ UNCHANGED <<others_sm, sm_state, sm_locks, sm_global_lock, rlocks, sm_frame>>

\* lock, line 22: self._locks[key] = threading.RLock()
LockCreate(t) ==
    /\ sm_pc[t] = "lock_create"
    /\ Len(rlocks) < MaxLocks
    /\ rlocks' = Append(rlocks, FreeLock)
    /\ sm_locks' = DictSet(sm_locks, sm_frame[t].key, Len(rlocks) + 1)
    /\ SMGoto(t, "lock_exit")
    /\ UNCHANGED <<others_sm, sm_state, sm_global_lock, sm_frame>>

\* lock, line 20: the with block of self._global_lock is left
LockExit(t) ==
    /\ sm_pc[t] = "lock_exit"
    /\ sm_global_lock' = Released(sm_global_lock)
    /\ SMGoto(t, "lock_read")
    /\ UNCHANGED <<others_sm, sm_state, sm_locks, rlocks, sm_frame>>

\* lock, line 23: lock = self._locks[key], a KeyError when the key is gone
LockRead(t) ==
    /\ sm_pc[t] = "lock_read"
    /\ IF sm_frame[t].key \in DOMAIN sm_locks
       THEN /\ sm_frame' = [sm_frame EXCEPT ![t].lock = sm_locks[sm_frame[t].key]]
            /\ SMGoto(t, "lock_acquire")
       ELSE /\ SMRaise(t, "KeyError", "lock")
            /\ SMGoto(t, "raised")
    /\ UNCHANGED <<others_sm, sm_state, sm_locks, sm_global_lock, rlocks>>

\* lock, line 27: lock.acquire(), then line 29 yields to the caller's body
LockAcquire(t) ==
    /\ sm_pc[t] = "lock_acquire"
    /\ Acquirable(rlocks[sm_frame[t].lock], t)
    /\ rlocks' = [rlocks EXCEPT ![sm_frame[t].lock] = Acquired(@, t)]
    /\ SMGoto(t, CASE sm_frame[t].op = "get" -> "get_body"
                   [] sm_frame[t].op = "set" -> "set_body"
                   [] sm_frame[t].op = "delete" -> "delete_test_state")
    /\ UNCHANGED <<others_sm, sm_state, sm_locks, sm_global_lock, sm_frame>>

\* get, line 35: return self._state.get(key, default)
GetBody(t) ==
    /\ sm_pc[t] = "get_body"
    /\ SMGoto(t, "lock_release")
    /\ UNCHANGED <<others_sm, sm_state, sm_locks, sm_global_lock, rlocks, sm_frame>>

\* set, lines 46-57: self._state[key] = value, no observer, return True
SetBody(t) ==
    /\ sm_pc[t] = "set_body"
    /\ sm_state' = DictSet(sm_state, sm_frame[t].key, sm_frame[t].value)
    /\ SMGoto(t, "lock_release")
    /\ UNCHANGED <<others_sm, sm_locks, sm_global_lock, rlocks, sm_frame>>

\* delete, line 69: if key in self._state
DeleteTestState(t) ==
    /\ sm_pc[t] = "delete_test_state"
    /\ SMGoto(t, IF sm_frame[t].key \in DOMAIN sm_state
                 THEN "delete_state" ELSE "delete_test_locks")
    /\ UNCHANGED <<others_sm, sm_state, sm_locks, sm_global_lock, rlocks, sm_frame>>

\* delete, line 70: del self._state[key], a KeyError when the key is gone
DeleteState(t) ==
    /\ sm_pc[t] = "delete_state"
    /\ IF sm_frame[t].key \in DOMAIN sm_state
       THEN /\ sm_state' = [x \in DOMAIN sm_state \ {sm_frame[t].key} |-> sm_state[x]]
            /\ SMGoto(t, "delete_test_locks")
            /\ UNCHANGED sm_frame
       ELSE /\ SMRaise(t, "KeyError", "delete")
            /\ SMGoto(t, "lock_release")
            /\ UNCHANGED sm_state
    /\ UNCHANGED <<others_sm, sm_locks, sm_global_lock, rlocks>>

\* delete, line 71: if key in self._locks
DeleteTestLocks(t) ==
    /\ sm_pc[t] = "delete_test_locks"
    /\ SMGoto(t, IF sm_frame[t].key \in DOMAIN sm_locks
                 THEN "delete_locks" ELSE "lock_release")
    /\ UNCHANGED <<others_sm, sm_state, sm_locks, sm_global_lock, rlocks, sm_frame>>

\* delete, line 72: del self._locks[key], a KeyError when the key is gone
DeleteLocks(t) ==
    /\ sm_pc[t] = "delete_locks"
    /\ IF sm_frame[t].key \in DOMAIN sm_locks
       THEN /\ sm_locks' = [x \in DOMAIN sm_locks \ {sm_frame[t].key} |-> sm_locks[x]]
            /\ UNCHANGED sm_frame
       ELSE /\ SMRaise(t, "KeyError", "delete")
            /\ UNCHANGED sm_locks
    /\ SMGoto(t, "lock_release")
    /\ UNCHANGED <<others_sm, sm_state, sm_global_lock, rlocks>>

\* lock, line 31: lock.release() in the finally clause, on return and on an
\* exception of the body alike
LockRelease(t) ==
    /\ sm_pc[t] = "lock_release"
    /\ rlocks' = [rlocks EXCEPT ![sm_frame[t].lock] = Released(@)]
    /\ SMGoto(t, IF sm_frame[t].exc = "" THEN "returned" ELSE "raised")
    /\ UNCHANGED <<others_sm, sm_state, sm_locks, sm_global_lock, sm_frame>>

\* clear is called; line 82: with self._global_lock
ClearEnter(t) ==
    /\ sm_pc[t] = "idle"
    /\ Acquirable(sm_global_lock, t)
    /\ sm_global_lock' = Acquired(sm_global_lock, t)
    /\ sm_frame' = [sm_frame EXCEPT ![t] = [NoSMFrame EXCEPT !.op = "clear"]]
    /\ SMGoto(t, "clear_state")
    /\ UNCHANGED <<others_sm, sm_state, sm_locks, rlocks>>

\* clear, line 83: self._state.clear()
ClearState(t) ==
    /\ sm_pc[t] = "clear_state"
    /\ sm_state' = EmptyDict
    /\ SMGoto(t, "clear_locks")
    /\ UNCHANGED <<others_sm, sm_locks, sm_global_lock, rlocks, sm_frame>>

\* clear, line 84: self._locks.clear()
ClearLocks(t) ==
    /\ sm_pc[t] = "clear_locks"
    /\ sm_locks' = EmptyDict
    /\ SMGoto(t, "clear_exit")
    /\ UNCHANGED <<others_sm, sm_state, sm_global_lock, rlocks, sm_frame>>

\* clear, line 82: the with block of self._global_lock is left
ClearExit(t) ==
    /\ sm_pc[t] = "clear_exit"
    /\ sm_global_lock' = Released(sm_global_lock)
    /\ SMGoto(t, "returned")
    /\ UNCHANGED <<others_sm, sm_state, sm_locks, rlocks, sm_frame>>

\* The call is over: get, delete and clear return or let the exception out;
\* set turns an exception into False at lines 58-60.
SMReturn(t) ==
    /\ sm_pc[t] \in {"returned", "raised"}
    /\ sm_frame' = [sm_frame EXCEPT ![t] = NoSMFrame]
    /\ SMGoto(t, "idle")
    /\ UNCHANGED <<others_sm, sm_state, sm_locks, sm_global_lock, rlocks>>

StepState(t) ==
    \/ \E op \in SMOps, key \in SMKeys, value \in SMValues : SMCall(t, op, key, value)
    \/ LockTest(t)
    \/ LockEnter(t)
    \/ LockRetest(t)
    \/ LockCreate(t)
    \/ LockExit(t)
    \/ LockRead(t)
    \/ LockAcquire(t)
    \/ GetBody(t)
    \/ SetBody(t)
    \/ DeleteTestState(t)
    \/ DeleteState(t)
    \/ DeleteTestLocks(t)
    \/ DeleteLocks(t)
    \/ LockRelease(t)
    \/ ClearEnter(t)
    \/ ClearState(t)
    \/ ClearLocks(t)
    \/ ClearExit(t)
    \/ SMReturn(t)

NextState == \E t \in Threads : StepState(t)

SpecState == InitConc /\ [][NextState]_vars

\* ------------------------------------------------------------------ claims

\* What the specification calls the normalized form of a label: lower-cased
\* and trimmed of surrounding whitespace.
Trim(s) == RStrip(LStrip(s, " "), " ")
Normalize(label) == Trim(Lower(label))

\* C1: with the resolutions run one at a time, the embeddings cache never holds
\* more than _max_cache_size entries.
C1_CacheNeverExceedsMax == Len(embeddings_cache) <= MaxCacheSize

\* C1's case: _add_to_cache has just stored an entry in a cache it found full.
C1_Witness ==
    /\ pc[MainThread] = "ge_ret"
    /\ last_add[MainThread].active
    /\ Len(last_add[MainThread].before) = MaxCacheSize
    /\ Len(embeddings_cache) = MaxCacheSize

\* C2: when _add_to_cache finds the cache at capacity it evicts exactly one
\* entry, the least recently accessed one (an access is an insertion or a
\* later cache hit), and stores the new one.
C2_EvictsLeastRecentlyAccessed ==
    \A t \in Threads :
        (/\ pc[t] = "ge_ret"
         /\ last_add[t].active
         /\ Len(last_add[t].before) >= MaxCacheSize)
        => /\ last_add[t].evicted = <<last_add[t].lru>>
           /\ OD_keys(embeddings_cache) =
                  (OD_keys(last_add[t].before) \ {last_add[t].lru}) \cup {last_add[t].text}
           /\ Len(embeddings_cache) = Len(last_add[t].before)

\* C2's case: _add_to_cache found the cache at capacity, evicted the least
\* recently accessed entry and stored a new key.
C2_Witness ==
    /\ pc[MainThread] = "ge_ret"
    /\ last_add[MainThread].active
    /\ Len(last_add[MainThread].before) = MaxCacheSize
    /\ last_add[MainThread].evicted = <<last_add[MainThread].lru>>
    /\ ~OD_contains(embeddings_cache, last_add[MainThread].lru)
    /\ OD_contains(embeddings_cache, last_add[MainThread].text)

\* C3: under any interleaving of threads running _get_embedding the cache is
\* as after some serial order of the calls; in particular it never holds more
\* than _max_cache_size entries.
C3_ConcurrentCacheBounded == Len(embeddings_cache) <= MaxCacheSize

\* C4: a failure inside a cache operation during a resolution is treated as a
\* miss: it does not leave _get_embedding, and the mapping request ends with
\* the bucket result, not the error result.
C4_CacheFailureIsMiss ==
    \A t \in Threads :
        /\ pc[t] # "mm_except"
        /\ pc[t] = "done" => result[t].kind = "buckets"

\* C5: make_request never raises; it returns None for a timeout, a refused
\* connection, a status other than 200 and a 200 body that is not JSON, and
\* the parsed body for a 200 response whose body parses.
C5_MakeRequestNeverRaises ==
    client.pc = "returned" =>
        LET net == client.net
            parses == net.kind = "response" /\ net.status = 200 /\ net.valid_json
        IN  /\ ~client.ret.raised
            /\ parses => client.ret.value = SomeDict(net.json)
            /\ ~parses => client.ret.value = NoneDict

\* C5's case: a 200 response whose body is not JSON came back as None.
C5_Witness ==
    /\ client.pc = "returned"
    /\ client.net.kind = "response"
    /\ client.net.status = 200
    /\ ~client.net.valid_json
    /\ client.ret.value = NoneDict

\* The tier attempts a resolution may make, in order.
TierOrders ==
    { <<>>, <<"kaggle_ok">>, <<"kaggle_fail">>, <<"kaggle_fail", "local_ok">>,
      <<"kaggle_fail", "local_fail">>, <<"local_ok">>, <<"local_fail">> }

InCalls(g, c) == \E i \in DOMAIN g.calls : g.calls[i] = c

\* C6: a resolution tries the cache, then the remote, then the local model and
\* stops at the first success: a hit makes no inference call, the local model
\* is asked only if the remote was not asked or failed, each tier is tried at
\* most once, and a miss is returned only when every applicable tier failed.
C6_TierOrder ==
    \A t \in Threads :
        pc[t] = "ge_ret" =>
            /\ ge[t].calls \in TierOrders
            /\ ge[t].hit => ge[t].calls = <<>>
            /\ (~ge[t].hit /\ ge[t].embedding # None) =>
                   /\ ge[t].calls # <<>>
                   /\ ge[t].calls[Len(ge[t].calls)] \in {"kaggle_ok", "local_ok"}
            /\ ge[t].embedding = None =>
                   /\ ~ge[t].hit
                   /\ kaggle_available => InCalls(ge[t], "kaggle_fail")
                   /\ model # "None" => InCalls(ge[t], "local_fail")

\* C6's case: the remote failed and the local model then gave the embedding.
C6_Witness ==
    /\ pc[MainThread] = "ge_ret"
    /\ ge[MainThread].calls = <<"kaggle_fail", "local_ok">>
    /\ ge[MainThread].embedding # None

InConnectionTest(t) == pc[t] \in {"ct_client", "ct_probe", "ct_flag"}

\* C7: the remote health state (_kaggle_available, _kaggle_info,
\* _last_health_check) is changed by connection tests only; no step of a
\* mapping request changes it, whatever its remote calls return.
C7_HealthChangedOnlyByConnectionTest ==
    [][health' # health => \E t \in Threads : InConnectionTest(t)]_vars

\* C7's case: a mapping request ended whose remote calls all failed, and the
\* remote is still marked available.
C7_Witness ==
    /\ pc[MainThread] = "done"
    /\ result[MainThread].kind = "buckets"
    /\ frame[MainThread].remote_failed
    /\ ~frame[MainThread].remote_ok
    /\ kaggle_available

\* C8: after a connection test the remote is marked available exactly if the
\* probe succeeded; a failed probe marks it unavailable also when it was
\* marked available before.
C8_FlagFollowsProbe ==
    \A t \in Threads :
        (pc[t] \in {"ui_after", "init_local"} /\ ct[t].caller # "none")
        => (kaggle_available <=> ct[t].probe_ok)

\* C9: two different labels with the same normalized form use one cache
\* entry: when the first was resolved to an embedding, the resolution of the
\* second that follows is a cache hit and makes no inference call.
C9_NormalizedLabelsShareEntry ==
    \A t \in Threads :
        (/\ pc[t] = "ge_ret"
         /\ last_res.valid
         /\ last_res.embedding # None
         /\ last_res.label # ge[t].label
         /\ Normalize(last_res.label) = Normalize(ge[t].label))
        => /\ ge[t].hit
           /\ ge[t].calls = <<>>

\* C10: after a resolution of a text that produced an embedding, the
\* resolution of the same text that follows returns the same vector and makes
\* no remote and no local inference call.
C10_ResolutionIdempotent ==
    \A t \in Threads :
        (/\ pc[t] = "ge_ret"
         /\ last_res.valid
         /\ last_res.embedding # None
         /\ last_res.text = ge[t].text)
        => /\ ge[t].embedding = last_res.embedding
           /\ ge[t].calls = <<>>

\* C10's case: the same text was resolved twice in a row and the second came
\* from the cache.
C10_Witness ==
    /\ pc[MainThread] = "ge_ret"
    /\ last_res.valid
    /\ last_res.embedding # None
    /\ last_res.text = ge[MainThread].text
    /\ ge[MainThread].hit

Range(seq) == {seq[i] : i \in DOMAIN seq}

\* The labels a bucket result holds in its three confidence buckets.
Mapped(r) ==
    DOMAIN r.high_confidence \cup DOMAIN r.medium_confidence \cup DOMAIN r.low_confidence

\* The number of the four buckets of a result that hold a label.
BucketsHolding(r, s) ==
    Cardinality({b \in {"high", "medium", "low", "manual"} :
                    \/ b = "high" /\ s \in DOMAIN r.high_confidence
                    \/ b = "medium" /\ s \in DOMAIN r.medium_confidence
                    \/ b = "low" /\ s \in DOMAIN r.low_confidence
                    \/ b = "manual" /\ s \in Range(r.requires_manual)})

\* C14: in the result of a mapping request every submitted label is in exactly
\* one of the four buckets, the buckets hold no other label, and every label
\* for which no embedding was produced is in requires_manual.
C14_BucketsPartitionLabels ==
    \A t \in Threads :
        (pc[t] = "done" /\ result[t].kind = "buckets") =>
            LET r == result[t]
                f == frame[t]
            IN  /\ \A s \in Range(f.source_metrics) : BucketsHolding(r, s) = 1
                /\ Mapped(r) \cup Range(r.requires_manual) = Range(f.source_metrics)
                /\ \A s \in Range(f.source_metrics) \ Range(f.valid_sources) :
                       s \in Range(r.requires_manual)

\* C14's case: of two submitted labels one got an embedding and a confidence
\* bucket, the other got no embedding and is in requires_manual.
C14_Witness ==
    /\ pc[MainThread] = "done"
    /\ result[MainThread].kind = "buckets"
    /\ Len(frame[MainThread].source_metrics) = 2
    /\ Len(frame[MainThread].valid_sources) = 1
    /\ Mapped(result[MainThread]) = Range(frame[MainThread].valid_sources)
    /\ Len(result[MainThread].requires_manual) = 1

\* C15: with the requests run one at a time, map_metrics_with_confidence_levels
\* never reaches its except clause and returns the bucket result with a method
\* tag, whatever the remote calls, the local model and the similarity
\* calculation do.
C15_AlwaysBucketResult ==
    \A t \in Threads :
        /\ frame[t].exc = ""
        /\ pc[t] = "done" =>
               /\ result[t].kind = "buckets"
               /\ result[t].error = ""
               /\ result[t].method \in {"ai", "local_ai", "none"}

\* C15's case: the sources were embedded, no target was (np.vstack raises on
\* the empty list), and the request still returned the buckets.
C15_Witness ==
    /\ pc[MainThread] = "done"
    /\ result[MainThread].kind = "buckets"
    /\ frame[MainThread].valid_sources # <<>>
    /\ frame[MainThread].target_embeddings = <<>>
    /\ frame[MainThread].remote_failed
    /\ result[MainThread].requires_manual = frame[MainThread].source_metrics

\* C16: a mapping request on a service whose configuration disables AI
\* mapping, or that has neither a remote marked available nor a local model,
\* returns the error result.
C16_ConfigErrorIsErrorResult ==
    \A t \in Threads :
        (/\ pc[t] = "done"
         /\ \/ ~config.enabled
            \/ model = "None" /\ ~kaggle_available)
        => result[t].kind = "error"

\* C17: with the remote marked unavailable and no local model, a mapping
\* request makes no remote call and returns the bucket result with every
\* submitted label in requires_manual and the three confidence buckets empty.
C17_NoEngineAllManual ==
    \A t \in Threads :
        (~kaggle_available /\ model = "None") =>
            /\ pc[t] # "ge_kaggle"
            /\ ~frame[t].remote_ok /\ ~frame[t].remote_failed
            /\ ge[t].calls = <<>>
            /\ pc[t] = "done" =>
                   /\ result[t].kind = "buckets"
                   /\ result[t].requires_manual = frame[t].source_metrics
                   /\ Mapped(result[t]) = {}

\* C17's case: such a request with two labels has returned.
C17_Witness ==
    /\ ~kaggle_available
    /\ model = "None"
    /\ pc[MainThread] = "done"
    /\ Len(frame[MainThread].source_metrics) = 2
    /\ result[MainThread].requires_manual = frame[MainThread].source_metrics

\* C18: when the remote is configured and marked available, every remote call
\* of a request failed and the local model produced every embedding of the
\* request, the method tag of the result is 'local_ai'.
C18_MethodNamesPathUsed ==
    \A t \in Threads :
        (/\ pc[t] = "done"
         /\ result[t].kind = "buckets"
         /\ config.use_kaggle_api /\ config.kaggle_api_url # ""
         /\ kaggle_available
         /\ frame[t].remote_failed /\ ~frame[t].remote_ok
         /\ frame[t].all_local
         /\ frame[t].valid_sources # <<>>)
        => result[t].method = "local_ai"

\* C20: a resolution calls the remote only if the remote is configured
\* (use_kaggle_api with a URL) and marked available.
C20_RemoteOnlyIfConfigured ==
    \A t \in Threads :
        (\/ pc[t] = "ge_kaggle"
         \/ InCalls(ge[t], "kaggle_ok")
         \/ InCalls(ge[t], "kaggle_fail"))
        => /\ config.use_kaggle_api
           /\ config.kaggle_api_url # ""
           /\ kaggle_available

\* The similarity of the i-th embedded source and the j-th embedded target.
Score(f, i, j) == Cosine(f.source_embeddings[i], f.target_embeddings[j])

SameScore(x, y) == ScoreGE(x, y) /\ ScoreGE(y, x)

\* The request has a similarity matrix: there are targets and all vectors have
\* one length.
Comparable(f) ==
    /\ f.target_embeddings # <<>>
    /\ \A v, w \in Range(f.source_embeddings) \cup Range(f.target_embeddings) : Len(v) = Len(w)

\* The maximum similarity of the i-th embedded source over the targets.
MaxScore(f, i) ==
    Score(f, i, CHOOSE j \in DOMAIN f.target_embeddings :
                    \A k \in DOMAIN f.target_embeddings : ScoreGE(Score(f, i, j), Score(f, i, k)))

\* The target and confidence a result records for a mapped label.
EntryOf(r, s) ==
    IF s \in DOMAIN r.high_confidence THEN r.high_confidence[s]
    ELSE IF s \in DOMAIN r.medium_confidence THEN r.medium_confidence[s]
    ELSE r.low_confidence[s]

\* The place of a target in the canonical vocabulary.
CanonicalIndex(target) == CHOOSE k \in DOMAIN MatchTargets : MatchTargets[k] = target

\* C11: a source is given a target only if its maximum similarity over the
\* targets is at least similarity_threshold; an embedded source whose maximum
\* is below it gets no target and is in requires_manual.
C11_MappedOnlyAtThreshold ==
    pc[MainThread] = "done" =>
        LET f == frame[MainThread]
            r == result[MainThread]
        IN  \A i \in DOMAIN f.valid_sources :
                LET s == f.valid_sources[i]
                IN  /\ s \in Mapped(r) =>
                           /\ Comparable(f)
                           /\ ScoreGE(MaxScore(f, i), Percent(SimilarityThreshold))
                           /\ SameScore(EntryOf(r, s).confidence, MaxScore(f, i))
                    /\ (Comparable(f) /\ ~ScoreGE(MaxScore(f, i), Percent(SimilarityThreshold)))
                           => /\ s \notin Mapped(r)
                              /\ s \in Range(r.requires_manual)

\* C11's case: of two embedded sources one reached the threshold and has a
\* target; the other has a maximum between the low level and the threshold
\* and is in requires_manual.
C11_Witness ==
    /\ pc[MainThread] = "done"
    /\ Comparable(frame[MainThread])
    /\ Len(frame[MainThread].valid_sources) = 2
    /\ frame[MainThread].valid_sources[1] \in Mapped(result[MainThread])
    /\ ScoreGE(MaxScore(frame[MainThread], 2), Percent(LowThreshold))
    /\ ~ScoreGE(MaxScore(frame[MainThread], 2), Percent(SimilarityThreshold))
    /\ result[MainThread].requires_manual = <<frame[MainThread].valid_sources[2]>>

\* C12: the target recorded for a source has the maximum similarity, and of
\* the embedded targets sharing that maximum it is the first in the order of
\* the canonical vocabulary, whichever targets were left out.
C12_TieGoesToFirstCanonical ==
    pc[MainThread] = "done" =>
        LET f == frame[MainThread]
            r == result[MainThread]
        IN  \A i \in DOMAIN f.valid_sources :
                LET s == f.valid_sources[i]
                IN  s \in Mapped(r) =>
                        \E jt \in DOMAIN f.valid_targets :
                            /\ f.valid_targets[jt] = EntryOf(r, s).target
                            /\ \A j \in DOMAIN f.valid_targets :
                                   /\ ScoreGE(Score(f, i, jt), Score(f, i, j))
                                   /\ SameScore(Score(f, i, j), Score(f, i, jt))
                                          => CanonicalIndex(f.valid_targets[jt])
                                                 <= CanonicalIndex(f.valid_targets[j])

\* C12's case: the first canonical target has no embedding, the other two tie
\* with vectors that differ, and the second canonical target is recorded.
C12_Witness ==
    /\ pc[MainThread] = "done"
    /\ Comparable(frame[MainThread])
    /\ frame[MainThread].valid_targets = Tail(MatchTargets)
    /\ frame[MainThread].target_embeddings[1] # frame[MainThread].target_embeddings[2]
    /\ Len(frame[MainThread].valid_sources) = 1
    /\ SameScore(Score(frame[MainThread], 1, 1), Score(frame[MainThread], 1, 2))
    /\ frame[MainThread].valid_sources[1] \in Mapped(result[MainThread])
    /\ EntryOf(result[MainThread], frame[MainThread].valid_sources[1]).target = MatchTargets[2]

\* C13: a source goes to the bucket of its best score: high_confidence from
\* the high level up, else medium_confidence from the medium level up, else
\* low_confidence from the low level up, else requires_manual, with the
\* target and the score recorded; a source without an embedding goes to
\* requires_manual.
C13_BucketByScore ==
    pc[MainThread] = "done" =>
        LET f == frame[MainThread]
            r == result[MainThread]
        IN  /\ \A s \in Range(f.source_metrics) \ Range(f.valid_sources) :
                   s \in Range(r.requires_manual)
            /\ Comparable(f) =>
                   \A i \in DOMAIN f.valid_sources :
                       LET s == f.valid_sources[i]
                           b == MaxScore(f, i)
                       IN  IF ScoreGE(b, Percent(HighThreshold))
                           THEN /\ s \in DOMAIN r.high_confidence
                                /\ SameScore(r.high_confidence[s].confidence, b)
                           ELSE IF ScoreGE(b, Percent(MediumThreshold))
                           THEN /\ s \in DOMAIN r.medium_confidence
                                /\ SameScore(r.medium_confidence[s].confidence, b)
                           ELSE IF ScoreGE(b, Percent(LowThreshold))
                           THEN /\ s \in DOMAIN r.low_confidence
                                /\ SameScore(r.low_confidence[s].confidence, b)
                           ELSE s \in Range(r.requires_manual)

\* C13, amended: a source whose best score is below similarity_threshold goes
\* to requires_manual whatever the levels say; from the threshold up it goes
\* to high_confidence, medium_confidence or low_confidence by the first level
\* its score reaches, with the target and the score recorded; a source
\* without an embedding goes to requires_manual.
C13_BucketByScoreFromThreshold ==
    pc[MainThread] = "done" =>
        LET f == frame[MainThread]
            r == result[MainThread]
        IN  /\ \A s \in Range(f.source_metrics) \ Range(f.valid_sources) :
                   s \in Range(r.requires_manual)
            /\ Comparable(f) =>
                   \A i \in DOMAIN f.valid_sources :
                       LET s == f.valid_sources[i]
                           b == MaxScore(f, i)
                       IN  IF ~ScoreGE(b, Percent(SimilarityThreshold))
                           THEN s \in Range(r.requires_manual) /\ s \notin Mapped(r)
                           ELSE IF ScoreGE(b, Percent(HighThreshold))
                           THEN /\ s \in DOMAIN r.high_confidence
                                /\ SameScore(r.high_confidence[s].confidence, b)
                           ELSE IF ScoreGE(b, Percent(MediumThreshold))
                           THEN /\ s \in DOMAIN r.medium_confidence
                                /\ SameScore(r.medium_confidence[s].confidence, b)
                           ELSE IF ScoreGE(b, Percent(LowThreshold))
                           THEN /\ s \in DOMAIN r.low_confidence
                                /\ SameScore(r.low_confidence[s].confidence, b)
                           ELSE s \in Range(r.requires_manual)

\* C13's case: one source has its best score between the low level and the
\* threshold and is in requires_manual, the other has a score between the
\* high level and 1.0 and is in high_confidence with that score.
C13_Witness ==
    /\ pc[MainThread] = "done"
    /\ Comparable(frame[MainThread])
    /\ Len(frame[MainThread].valid_sources) = 2
    /\ ScoreGE(MaxScore(frame[MainThread], 1), Percent(LowThreshold))
    /\ ~ScoreGE(MaxScore(frame[MainThread], 1), Percent(SimilarityThreshold))
    /\ result[MainThread].requires_manual = <<frame[MainThread].valid_sources[1]>>
    /\ DOMAIN result[MainThread].high_confidence = {frame[MainThread].valid_sources[2]}
    /\ ~SameScore(MaxScore(frame[MainThread], 2), Percent(100))
    /\ SameScore(EntryOf(result[MainThread], frame[MainThread].valid_sources[2]).confidence,
                 MaxScore(frame[MainThread], 2))
    /\ result[MainThread].low_confidence = EmptyDict

SameDirection(v, w) ==
    /\ Len(v) = Len(w)
    /\ \E a, b \in 1..2 : \A n \in DOMAIN v : a * v[n] = b * w[n]

C21_TargetEmbeddedOnce ==
    \A t \in Threads :
        (/\ pc[t] = "ge_ret"
         /\ frame[t].phase = "targets"
         /\ ge[t].text \in DOMAIN embedded)
        => (ge[t].hit /\ ge[t].calls = <<>>)

\* C21 (amended): a target whose embedding was produced is resolved by an
\* inference call again only after _add_to_cache has evicted its entry as the
\* least recently accessed one; until then every request obtains it from the
\* cache without an inference call.
C21_TargetEmbeddedAgainOnlyAfterEviction ==
    \A t \in Threads :
        (/\ pc[t] = "ge_ret"
         /\ frame[t].phase = "targets"
         /\ ge[t].text \in DOMAIN embedded
         /\ ~(ge[t].hit /\ ge[t].calls = <<>>))
        => embedded[ge[t].text] = "evicted"

\* A later request obtains from the cache a target embedded by an earlier one,
\* in a cache that has evicted entries in between.
C21_Witness ==
    /\ pc[MainThread] = "ge_ret"
    /\ frame[MainThread].phase = "targets"
    /\ ge[MainThread].text \in DOMAIN embedded
    /\ embedded[ge[MainThread].text] = "cached"
    /\ ge[MainThread].hit
    /\ ge[MainThread].calls = <<>>
    /\ \E x \in DOMAIN embedded : embedded[x] = "evicted"

\* The phases of a request, in the order of the code.
PhaseChain ==
    { <<"none", "sources">>, <<"sources", "targets">>, <<"targets", "match">>,
      <<"match", "classify">>, <<"classify", "done">>, <<"done", "none">> }

\* A step of thread t from phase p to phase q has resolved every label of the
\* phase it leaves: the loop index has passed the last source, or the last target.
LoopsFinished(t, p) ==
    /\ p = "sources" => frame[t].idx = Len(frame[t].source_metrics) + 1
    /\ p = "targets" => frame[t].idx = Len(StandardMetrics) + 1

\* C22 (as stated): a mapping request moves through its phases strictly in the
\* order embed sources, embed targets, match, classify, done: every change of
\* phase goes to the next phase of that chain (or to the failure), no target is
\* resolved before every source was, no similarity is computed before every
\* target was resolved, classification starts only after matching ended, and
\* no phase is entered twice.
C22_PhasesInOrder ==
    [][\A t \in Threads :
          frame'[t].phase # frame[t].phase
          => \/ frame'[t].phase = "failed"
             \/ /\ <<frame[t].phase, frame'[t].phase>> \in PhaseChain
                /\ LoopsFinished(t, frame[t].phase)]_vars

\* C22 (amended): the same order, with one more edge: a request in which no
\* source label got an embedding goes from embed sources straight to classify,
\* after every source label was resolved, without the target and match phases.
C22_PhasesInOrderOrSkipped ==
    [][\A t \in Threads :
          frame'[t].phase # frame[t].phase
          => \/ frame'[t].phase = "failed"
             \/ /\ <<frame[t].phase, frame'[t].phase>> \in PhaseChain
                /\ LoopsFinished(t, frame[t].phase)
             \/ /\ frame[t].phase = "sources"
                /\ frame'[t].phase = "classify"
                /\ frame[t].source_embeddings = <<>>
                /\ LoopsFinished(t, "sources")]_vars

\* A request of two labels has gone through all the phases and mapped a label.
C22_Witness ==
    /\ pc[MainThread] = "done"
    /\ frame[MainThread].phase = "done"
    /\ Len(frame[MainThread].source_metrics) = 2
    /\ Len(frame[MainThread].target_embeddings) = Len(StandardMetrics)
    /\ result[MainThread].kind = "buckets"
    /\ result[MainThread].method # "none"

\* C23 (as stated): a mapping request in which zero source embeddings are
\* produced ends in failure: it returns the error payload, publishes
\* mapping_failed and publishes no mapping_completed.
C23_NoSourceEmbeddingFails ==
    \A t \in Threads :
        (pc[t] = "done" /\ frame[t].source_embeddings = <<>>)
        => /\ result[t].kind = "error"
           /\ published[t] = <<"mapping_started", "mapping_failed">>

\* C23 (amended): a mapping request whose source loop ends with zero
\* embeddings is completed, not failed: it returns the buckets with method
\* 'none', every label in requires_manual and nothing mapped, and publishes
\* mapping_completed and no mapping_failed.
C23_NoSourceEmbeddingIsCompleted ==
    \A t \in Threads :
        (pc[t] = "done" /\ frame[t].phase = "done" /\ frame[t].source_embeddings = <<>>)
        => /\ result[t].kind = "buckets"
           /\ result[t].method = "none"
           /\ result[t].error = ""
           /\ result[t].requires_manual = frame[t].source_metrics
           /\ Mapped(result[t]) = {}
           /\ published[t] = <<"mapping_started", "mapping_completed">>

\* Two labels were submitted to a service with a loaded model, and the model
\* gave no embedding for either.
C23_Witness ==
    /\ pc[MainThread] = "done"
    /\ model = "loaded"
    /\ Len(frame[MainThread].source_metrics) = 2
    /\ frame[MainThread].source_embeddings = <<>>
    /\ result[MainThread].kind = "buckets"

\* C24: when a mapping request ends in failure, the failure path removes or
\* alters no cache entry: the step in which a thread's exception is raised and
\* the step in which the except clause handles it and returns {'error': ...}
\* both leave embeddings_cache as it was, so the entries written before the
\* failure are kept.
C24_FailureKeepsCache ==
    [][\A t \in Threads :
          (pc'[t] # pc[t] /\ "mm_except" \in {pc[t], pc'[t]})
          => embeddings_cache' = embeddings_cache]_vars

\* A request has failed after it had stored the embedding of its source label,
\* and that entry is in the cache.
C24_Witness ==
    \E t \in Threads :
        /\ pc[t] = "done"
        /\ result[t].kind = "error"
        /\ frame[t].source_embeddings # <<>>
        /\ OD_contains(embeddings_cache, CacheKey(frame[t].source_metrics[1]))

\* The last inference call of a resolution returned a vector.
LastCallOK(calls) ==
    /\ calls # <<>>
    /\ calls[Len(calls)] \in {"kaggle_ok", "local_ok"}

\* C25: every value stored in embeddings_cache is a complete embedding that
\* the remote or the local path returned for that key: after every step the
\* cached values are vectors; an entry is written only by the resolution of
\* its key, after its last inference call returned the vector written; and a
\* resolution that ends in a miss goes to its return without a cache write.
C25_OnlyCompleteEmbeddingsCached ==
    [][/\ \A i \in DOMAIN embeddings_cache' :
            embeddings_cache'[i][2] \in RemoteVectors \cup LocalVectors
       /\ \A e \in Range(embeddings_cache') \ Range(embeddings_cache) :
            \E t \in Threads :
                /\ pc[t] = "ac_set"
                /\ pc'[t] = "ge_ret"
                /\ e = <<ge[t].text, ge[t].embedding>>
                /\ ge[t].embedding # None
                /\ LastCallOK(ge[t].calls)
       /\ \A t \in Threads :
            (pc[t] = "ge_add" /\ pc'[t] # pc[t] /\ ge[t].embedding = None)
            => (pc'[t] = "ge_ret" /\ embeddings_cache' = embeddings_cache)]_vars

\* A resolution has just stored the vector the remote returned for its key;
\* an earlier resolution of the same request ended in a miss.
C25_Witness ==
    /\ pc[MainThread] = "ge_ret"
    /\ last_add[MainThread].active
    /\ ge[MainThread].calls = <<"kaggle_ok">>
    /\ OD_contains(embeddings_cache, ge[MainThread].text)
    /\ OD_getitem(embeddings_cache, ge[MainThread].text).value = ge[MainThread].embedding
    /\ frame[MainThread].idx = 2
    /\ frame[MainThread].source_embeddings = <<>>

\* A connection test of thread u has replaced the client and has not yet
\* recorded the outcome of its probe in the availability flag.
ProbeNotRecorded(u) == pc[u] \in {"ct_probe", "ct_flag"}

\* C26: reads and writes of the remote health state are mutually exclusive:
\* two connection tests are never under way at the same time, and a mapping
\* thread neither reads the availability flag nor sends a request through the
\* client while a connection test has replaced the client and not yet
\* recorded its probe.
C26_HealthStateExclusive ==
    [][/\ \A t, u \in Threads :
            (t # u) => ~(InConnectionTest(t) /\ InConnectionTest(u))
       /\ \A t, u \in Threads :
            (/\ t # u
             /\ pc[t] \in {"ge_route", "ge_kaggle"}
             /\ pc'[t] # pc[t])
            => ~ProbeNotRecorded(u)]_vars

\* C27: the CacheManager is bounded by byte size and evicts by recency. For
\* every set that stores its entry: afterwards the total estimated size of the
\* stored entries is at most max_size_bytes; a set that does not push the total
\* over the limit removes nothing; a set that does removes entries in ascending
\* order of last access time (no removed entry was accessed later than a kept
\* one), leaves the kept entries as they were, and goes on until the total is at
\* most 80% of the limit or the cache is empty, and no further (before the last
\* removal the total was still above 80%).
C27_BoundedByBytesEvictsByRecency ==
    [][(cm_last'.op = "set" /\ now' = now)
       => \E inserted \in {CM_setitem(cm_cache, cm_last'.entry)} :
          \E before \in {TotalSize(inserted)}, after \in {TotalSize(cm_cache')} :
              /\ after <= MaxSizeBytes
              /\ IF before <= MaxSizeBytes
                 THEN cm_cache' = inserted
                 ELSE \E kept \in {Range(cm_cache')} :
                      \E removed \in {Range(inserted) \ kept} :
                          /\ kept \subseteq Range(inserted)
                          /\ \A r \in removed, k \in kept :
                                r.last_accessed <= k.last_accessed
                          /\ \/ 10 * after <= 8 * MaxSizeBytes
                             \/ cm_cache' = <<>>
                          /\ \E r \in removed :
                                /\ \A q \in removed : q.last_accessed <= r.last_accessed
                                /\ 10 * (after + EntrySize(r)) > 8 * MaxSizeBytes]_vars

\* A set has pushed the total over the limit, the two older entries were
\* removed to get to 80% of it, and the entry set is kept.
C27_Witness ==
    /\ cm_last.op = "set"
    /\ Len(cm_last.evicted) = 2
    /\ cm_cache = <<cm_last.entry>>

\* The entries of a result's three confidence buckets.
BucketEntries(r) ==
    {r.high_confidence[s] : s \in DOMAIN r.high_confidence}
    \cup {r.medium_confidence[s] : s \in DOMAIN r.medium_confidence}
    \cup {r.low_confidence[s] : s \in DOMAIN r.low_confidence}

\* C28: every label placed in high_confidence, medium_confidence or
\* low_confidence has a recorded confidence of at least similarity_threshold
\* and a target of the canonical vocabulary; so, the similarity threshold
\* being at least the medium level (0.6 and 0.6 by default), low_confidence is
\* empty in every result.
C28_BucketsHoldOnlyAcceptedLabels ==
    pc[MainThread] = "done" =>
        LET r == result[MainThread]
        IN  /\ \A e \in BucketEntries(r) :
                  /\ ScoreGE(e.confidence, Percent(SimilarityThreshold))
                  /\ e.target \in Range(MatchTargets)
            /\ SimilarityThreshold >= MediumThreshold => r.low_confidence = EmptyDict

\* One label is in a confidence bucket with a canonical target and a
\* confidence above the threshold; another, whose best score lies between the
\* low level and the similarity threshold, is in requires_manual, and
\* low_confidence is empty.
C28_Witness ==
    /\ pc[MainThread] = "done"
    /\ Comparable(frame[MainThread])
    /\ Len(frame[MainThread].valid_sources) = 2
    /\ \E e \in BucketEntries(result[MainThread]) :
          /\ e.target \in Range(StandardMetrics)
          /\ ScoreGE(e.confidence, Percent(SimilarityThreshold))
    /\ ScoreGE(MaxScore(frame[MainThread], 2), Percent(LowThreshold))
    /\ ~ScoreGE(MaxScore(frame[MainThread], 2), Percent(SimilarityThreshold))
    /\ frame[MainThread].valid_sources[2] \in Range(result[MainThread].requires_manual)
    /\ result[MainThread].low_confidence = EmptyDict

\* Thread t is inside map_metrics_with_confidence_levels and has not yet
\* published its closing event.
MappingUnderWay(t) ==
    \/ frame[t].phase \in {"sources", "targets", "match", "classify"}
    \/ pc[t] = "mm_except"

\* C29: every call of map_metrics_with_confidence_levels publishes
\* mapping_started before any embedding is resolved, nothing else while it
\* runs, and then as its last event exactly one of mapping_completed, when it
\* returns the buckets, or mapping_failed, when it returns the error: never
\* both and never neither.
C29_StartedThenOneClosingEvent ==
    \A t \in Threads :
        /\ MappingUnderWay(t) => published[t] = <<"mapping_started">>
        /\ pc[t] = "done"
           => \/ /\ result[t].kind = "buckets"
                 /\ published[t] = <<"mapping_started", "mapping_completed">>
              \/ /\ result[t].kind = "error"
                 /\ published[t] = <<"mapping_started", "mapping_failed">>

\* Two calls have returned, one with the buckets after mapping_completed and
\* one with the error after mapping_failed.
C29_Witness ==
    \E t, u \in Threads :
        /\ pc[t] = "done"
        /\ pc[u] = "done"
        /\ result[t].kind = "buckets"
        /\ published[t] = <<"mapping_started", "mapping_completed">>
        /\ result[u].kind = "error"
        /\ published[u] = <<"mapping_started", "mapping_failed">>


\* A thread is inside the critical section of lock(key): it has acquired the
\* lock object it read for the key and has not released it yet.
InCriticalSection(t, key) ==
    /\ sm_frame[t].key = key
    /\ sm_pc[t] \in {"get_body", "set_body", "delete_test_state", "delete_state",
                     "delete_test_locks", "delete_locks", "lock_release"}

\* C30: the per-key lock of StateManager gives mutual exclusion per key under
\* any interleaving of get, set, delete and clear: no two threads are inside
\* the critical section of the same key at once, and no lock(key) fails with
\* the KeyError of a lock that a concurrent delete or clear removed.
C30_PerKeyMutualExclusion ==
    /\ \A key \in SMKeys : \A t, u \in Threads :
           InCriticalSection(t, key) /\ InCriticalSection(u, key) => t = u
    /\ \A t \in Threads : ~(sm_pc[t] = "raised" /\ sm_frame[t].at = "lock")

============================================================================
